---- MODULE Spec2Model ----
(***************************************************************************)
(* Verification model of the comparison / insight derivation pipeline of   *)
(* the quarterly analytics report generator:                               *)
(*   src/src/utils/formatting.py         calculate_change                  *)
(*   src/src/analysis/benchmarks.py      BenchmarkAnalyzer                 *)
(*   src/src/analysis/insights_engine.py InsightsEngine                    *)
(*   src/src/utils/dates.py              get_comparison_periods            *)
(*                                                                         *)
(* Numbers.  The program computes in binary floating point.  The model     *)
(* computes the same expressions in exact arithmetic: inputs are integers, *)
(* a quotient is kept as a fraction [n, d] with d > 0, and every           *)
(* comparison against a threshold is done by cross-multiplication.         *)
(*                                                                         *)
(* Exceptions.  An operation that raises yields [raised |-> TRUE, exc],    *)
(* and every caller propagates it the way Python does.                     *)
(***************************************************************************)
EXTENDS Integers, Sequences, FiniteSets, TLC

VARIABLES
    pc,          \* position of the caller: "start", then the last operation run
    change_args, \* arguments of the calculate_change call
    change,      \* ChangeMetric returned by calculate_change (NoResult before)
    benchmarks,  \* BenchmarkAnalyzer.benchmarks, the analyzer's table
    bench_call,  \* the call made on the analyzer: compare or analyze_all
    comparisons, \* dict metric name -> BenchmarkComparison held by the caller
    bench_summary, \* dict returned by get_benchmark_summary (NoResult before)
    settings,    \* InsightsEngine.settings
    args,        \* arguments of analyze: ga4_current, ga4_previous, gsc_current, gsc_previous
    insights,    \* InsightsEngine.insights
    earlier,     \* len(InsightsEngine.insights) when the latest analyze call began
    returned,    \* what analyze returned or raised (NoResult before)
    executive_summary,   \* what get_executive_summary returned (NoResult before)
    key_recommendations, \* what get_key_recommendations returned (NoResult before)
    as_dict,     \* what to_dict returned (NoResult before)
    period_args, \* arguments of get_comparison_periods: quarter, year, comparison_type
    periods,     \* ComparisonPeriods it returned, or what it raised (NoResult before)
    days,        \* current.days and previous.days as read by the caller (NoResult before)
    heap,        \* the list objects that exist, by identity: heap[id] is a list's content
    engines,     \* engines[e] is the identity of the list that engine e's self.insights names
    threads,     \* per thread: the engine it calls analyze on, its arguments, where it is
    trend_args,  \* TrendAnalyzer.sensitivity and the arguments of the call made on it
    trend,       \* TrendResult returned by analyze_trend (NoResult before)
    anomalies,   \* Ok(list) returned by detect_anomalies (NoResult before)
    world,       \* what the configuration enables and what the remote services will answer
    generator,   \* the ReportGenerator: its clients, self.errors, its engine's insights
    report,      \* QuarterlyReport returned by generate, or what it raised (NoResult before)
    cache_settings, \* the settings the cache reads: cache_enabled, cache_ttl_hours
    disk,        \* the diskcache directories: (directory, key) -> [value, expire_time]
    clock,       \* the time, in seconds
    cache_call,  \* the last call of a @cached method and what it returned
    executions   \* how many times a wrapped method has been executed

change_vars == <<change_args, change>>

bench_vars == <<benchmarks, bench_call, comparisons, bench_summary>>

engine_vars ==
    <<settings, args, insights, earlier, returned, executive_summary,
      key_recommendations, as_dict>>

date_vars == <<period_args, periods, days>>

thread_vars == <<heap, engines, threads>>

trend_vars == <<trend_args, trend, anomalies>>

report_vars == <<world, generator, report>>

cache_vars == <<cache_settings, disk, clock, cache_call, executions>>

rest_vars == <<trend_vars, report_vars, cache_vars>>

vars == <<pc, change_vars, bench_vars, engine_vars, date_vars, thread_vars, rest_vars>>

NoResult == [raised |-> FALSE, none |-> TRUE]

Raise(e) == [raised |-> TRUE, exc |-> e]

Abs(x) == IF x < 0 THEN -x ELSE x

Sign(x) == IF x < 0 THEN -1 ELSE IF x > 0 THEN 1 ELSE 0

(***************************************************************************)
(* Fractions: [n, d] with d > 0 stands for n / d.                          *)
(***************************************************************************)
Frac(n, d) == [n |-> n, d |-> d]

FracEq(a, b) == a.n * b.d = b.n * a.d

FracAbsLt(a, k, m) == m * Abs(a.n) < k * a.d       \* |a| <  k/m

FracAbsGe(a, k, m) == m * Abs(a.n) >= k * a.d      \* |a| >= k/m

(***************************************************************************)
(* formatting.py: calculate_change                                         *)
(***************************************************************************)

\* ((current - previous) / previous) * 100; the division raises on 0
PercentChange(current, previous) ==
    IF previous = 0
    THEN Raise("ZeroDivisionError")
    ELSE [raised |-> FALSE,
          val |-> Frac((current - previous) * 100 * Sign(previous), Abs(previous))]

ChangePct_unguarded(current, previous) == PercentChange(current, previous)

\* lines 43-46: the zero-previous policy, then the quotient
ChangePct(current, previous) ==
    IF previous = 0
    THEN [raised |-> FALSE,
          val |-> IF current = 0 THEN Frac(0, 1) ELSE Frac(100, 1)]
    ELSE PercentChange(current, previous)

Direction_ignoring_inverse(change_pct, inverse) ==
    IF FracAbsLt(change_pct, 1, 2) THEN "neutral"
    ELSE IF change_pct.n > 0 THEN "up" ELSE "down"

\* lines 51-56
Direction(change_pct, inverse) ==
    IF FracAbsLt(change_pct, 1, 2) THEN "neutral"
    ELSE IF change_pct.n > 0
         THEN (IF inverse THEN "down" ELSE "up")
         ELSE (IF inverse THEN "up" ELSE "down")

ReachesThreshold_strict(change_pct, threshold) ==
    threshold * change_pct.d < Abs(change_pct.n)

\* lines 59-60: abs(change_pct) >= threshold
ReachesThreshold(change_pct, threshold) == FracAbsGe(change_pct, threshold, 1)

calculate_change(current, previous, significant_threshold, anomaly_threshold, inverse) ==
    LET pct == ChangePct(current, previous)
    IN  IF pct.raised THEN pct
        ELSE [raised         |-> FALSE,
              current        |-> current,
              previous       |-> previous,
              change_pct     |-> pct.val,
              change_abs     |-> current - previous,
              direction      |-> Direction(pct.val, inverse),
              is_significant |-> ReachesThreshold(pct.val, significant_threshold),
              is_anomaly     |-> ReachesThreshold(pct.val, anomaly_threshold)]

(***************************************************************************)
(* Python values.  None and a missing optional argument are the empty      *)
(* sequence, a given value v is <<v>>.  A dict that the code only looks up *)
(* is a function on its keys; a dict that the code iterates is the         *)
(* sequence of its <<key, value>> items, keys distinct, in insertion       *)
(* order.                                                                  *)
(***************************************************************************)
None == <<>>

Some(v) == <<v>>

\* dict.get(key, default)
Get(dict, key, default) == IF key \in DOMAIN dict THEN dict[key] ELSE default

\* dict.update(other)
Update(dict, other) ==
    [k \in DOMAIN dict \cup DOMAIN other |->
        IF k \in DOMAIN other THEN other[k] ELSE dict[k]]

ItemKeys(items) == {items[i][1] : i \in DOMAIN items}

\* items[key] of an iterated dict
ItemGet(items, key) == items[CHOOSE i \in DOMAIN items : items[i][1] = key][2]

\* dict[key] = value on an iterated dict: replaces in place or appends
ItemPut(items, key, value) ==
    IF key \in ItemKeys(items)
    THEN [i \in DOMAIN items |-> IF items[i][1] = key THEN <<key, value>> ELSE items[i]]
    ELSE Append(items, <<key, value>>)

EngineIdle ==
    /\ settings = <<>>
    /\ args = [op |-> "none"]
    /\ insights = <<>>
    /\ earlier = 0
    /\ returned = NoResult
    /\ executive_summary = NoResult
    /\ key_recommendations = NoResult
    /\ as_dict = NoResult

DatesIdle ==
    /\ period_args = [op |-> "none"]
    /\ periods = NoResult
    /\ days = NoResult

ThreadsIdle ==
    /\ heap = <<>>
    /\ engines = <<>>
    /\ threads = <<>>

TrendIdle ==
    /\ trend_args = [op |-> "none"]
    /\ trend = NoResult
    /\ anomalies = NoResult

ReportIdle ==
    /\ world = [op |-> "none"]
    /\ generator = NoResult
    /\ report = NoResult

CacheIdle ==
    /\ cache_settings = [op |-> "none"]
    /\ disk = <<>>
    /\ clock = 0
    /\ cache_call = [op |-> "none"]
    /\ executions = 0

RestIdle == TrendIdle /\ ReportIdle /\ CacheIdle

BenchIdle ==
    /\ benchmarks = <<>>
    /\ bench_call = [op |-> "none"]
    /\ comparisons = <<>>
    /\ bench_summary = NoResult

(***************************************************************************)
(* Inputs of calculate_change.                                             *)
(***************************************************************************)
MaxSmall == 5

ChangeValues == (-MaxSmall .. MaxSmall) \cup {180, 199, 200, 201, 220, 250, 1000, 1004}

ThresholdPairs == {<<10, 25>>, <<5, 50>>, <<25, 10>>}

ChangeArgs ==
    [current : ChangeValues, previous : ChangeValues,
     thresholds : ThresholdPairs, inverse : BOOLEAN]

InitChange ==
    /\ pc = "start"
    /\ change_args \in ChangeArgs
    /\ change = NoResult
    /\ BenchIdle
    /\ EngineIdle
    /\ DatesIdle
    /\ ThreadsIdle
    /\ RestIdle

CalculateChange ==
    /\ pc = "start"
    /\ change' = calculate_change(change_args.current, change_args.previous,
                                  change_args.thresholds[1], change_args.thresholds[2],
                                  change_args.inverse)
    /\ pc' = "calculate_change"
    /\ UNCHANGED <<change_args, bench_vars, engine_vars, date_vars, thread_vars, rest_vars>>

NextChange == CalculateChange

SpecChange == InitChange /\ [][NextChange]_vars

(***************************************************************************)
(* Claims about calculate_change (checked under SpecChange).               *)
(***************************************************************************)
ChangeDone == pc = "calculate_change"

Swapped(direction) ==
    IF direction = "up" THEN "down" ELSE IF direction = "down" THEN "up" ELSE direction

\* The same call with the other value of inverse.
OtherInverse ==
    calculate_change(change_args.current, change_args.previous,
                     change_args.thresholds[1], change_args.thresholds[2],
                     ~ change_args.inverse)

\* C6: calculate_change never raises and never yields infinity for a zero
\* previous value: previous = 0 gives change_pct = 0 and direction neutral
\* when current = 0, and change_pct = 100 when current # 0.
C6_ZeroPrevious ==
    (ChangeDone /\ change_args.previous = 0) =>
        /\ ~ change.raised
        /\ change.change_pct.d > 0
        /\ change_args.current = 0 =>
              (FracEq(change.change_pct, Frac(0, 1)) /\ change.direction = "neutral")
        /\ change_args.current # 0 => FracEq(change.change_pct, Frac(100, 1))

C6_Witness ==
    /\ ChangeDone
    /\ change_args.previous = 0
    /\ change_args.current # 0
    /\ ~ change.raised
    /\ FracEq(change.change_pct, Frac(100, 1))

\* C7: direction is neutral iff |change_pct| < 0.5; the call with the other
\* value of inverse has up and down swapped exactly when |change_pct| >= 0.5,
\* and the same change_pct, change_abs, is_significant and is_anomaly.
C7_DirectionAndInverse ==
    (ChangeDone /\ ~ change.raised) =>
        /\ (change.direction = "neutral") <=> FracAbsLt(change.change_pct, 1, 2)
        /\ ~ OtherInverse.raised
        /\ OtherInverse.change_pct = change.change_pct
        /\ OtherInverse.change_abs = change.change_abs
        /\ OtherInverse.is_significant = change.is_significant
        /\ OtherInverse.is_anomaly = change.is_anomaly
        /\ OtherInverse.direction = Swapped(change.direction)
        /\ FracAbsGe(change.change_pct, 1, 2) =>
              /\ change.direction \in {"up", "down"}
              /\ OtherInverse.direction # change.direction
              /\ change.direction =
                    (IF (change.change_pct.n > 0) = change_args.inverse THEN "down" ELSE "up")

\* |change_pct| is exactly 0.5 and inverse is set: the direction is flipped.
C7_Witness ==
    /\ ChangeDone
    /\ ~ change.raised
    /\ change_args.inverse
    /\ 2 * change.change_pct.n = change.change_pct.d
    /\ change.direction = "down"

\* C8: is_significant iff |change_pct| >= significant_threshold and
\* is_anomaly iff |change_pct| >= anomaly_threshold, boundaries inclusive.
C8_Thresholds ==
    (ChangeDone /\ ~ change.raised) =>
        /\ change.is_significant <=>
              Abs(change.change_pct.n) >= change_args.thresholds[1] * change.change_pct.d
        /\ change.is_anomaly <=>
              Abs(change.change_pct.n) >= change_args.thresholds[2] * change.change_pct.d

\* A change of exactly the significant threshold is flagged.
C8_Witness ==
    /\ ChangeDone
    /\ ~ change.raised
    /\ change_args.previous # 0
    /\ Abs(change.change_pct.n) = change_args.thresholds[1] * change.change_pct.d
    /\ change.is_significant

(***************************************************************************)
(* benchmarks.py: BenchmarkAnalyzer.  Metric values and benchmark values   *)
(* are in tenths (55.0 is 550).  Of a table entry only 'value' and         *)
(* 'lower_is_better' are read by the code.  An interpretation text is      *)
(* kept as its template and the values formatted into it.                  *)
(***************************************************************************)
DEFAULT_BENCHMARKS ==
    [bounce_rate            |-> [value |-> 550,  lower_is_better |-> TRUE],
     avg_session_duration   |-> [value |-> 1200, lower_is_better |-> FALSE],
     pages_per_session      |-> [value |-> 25,   lower_is_better |-> FALSE],
     organic_traffic_share  |-> [value |-> 400,  lower_is_better |-> FALSE],
     direct_traffic_share   |-> [value |-> 250,  lower_is_better |-> FALSE],
     referral_traffic_share |-> [value |-> 150,  lower_is_better |-> FALSE],
     social_traffic_share   |-> [value |-> 100,  lower_is_better |-> FALSE],
     new_visitor_rate       |-> [value |-> 700,  lower_is_better |-> FALSE],
     mobile_traffic_share   |-> [value |-> 550,  lower_is_better |-> FALSE],
     avg_search_position    |-> [value |-> 150,  lower_is_better |-> TRUE],
     search_ctr             |-> [value |-> 30,   lower_is_better |-> FALSE],
     engagement_rate        |-> [value |-> 550,  lower_is_better |-> FALSE]]

\* __init__: the defaults, updated with the custom benchmarks if any
BenchmarkAnalyzer(custom_benchmarks) ==
    IF custom_benchmarks # None /\ DOMAIN custom_benchmarks[1] # {}
    THEN Update(DEFAULT_BENCHMARKS, custom_benchmarks[1])
    ELSE DEFAULT_BENCHMARKS

\* _interpret
Interpret(metric_name, current, benchmark, diff_pct, performance, lower_is_better) ==
    IF performance = "at"
    THEN [template |-> "at", benchmark |-> benchmark]
    ELSE LET good_performance ==
                 \/ performance = "below" /\ lower_is_better
                 \/ performance = "above" /\ ~ lower_is_better
         IN  [template  |-> IF good_performance THEN "outperforming" ELSE "below_benchmark",
              diff_pct  |-> Frac(Abs(diff_pct.n), diff_pct.d),
              current   |-> current,
              benchmark |-> benchmark]

Performance_inclusive(difference, difference_pct, lower_is_better) ==
    IF ~ FracAbsGe(difference_pct, 5, 1) \/ 5 * difference_pct.d = Abs(difference_pct.n)
    THEN "at"
    ELSE IF lower_is_better
         THEN (IF difference < 0 THEN "below" ELSE "above")
         ELSE (IF difference > 0 THEN "above" ELSE "below")

\* compare, lines 161-167
Performance(difference, difference_pct, lower_is_better) ==
    IF FracAbsLt(difference_pct, 5, 1)
    THEN "at"
    ELSE IF lower_is_better
         THEN (IF difference < 0 THEN "below" ELSE "above")
         ELSE (IF difference > 0 THEN "above" ELSE "below")

HasNoBenchmark_table_only(table, metric_name, custom_benchmark) ==
    metric_name \notin DOMAIN table

\* compare, line 151: the test that makes compare return None
HasNoBenchmark(table, metric_name, custom_benchmark) ==
    metric_name \notin DOMAIN table /\ custom_benchmark = None

\* compare: None, or Some(BenchmarkComparison)
compare(table, metric_name, current_value, custom_benchmark) ==
    IF HasNoBenchmark(table, metric_name, custom_benchmark)
    THEN None
    ELSE LET benchmark_data  == Get(table, metric_name, <<>>)
             \* custom_benchmark or benchmark_data.get('value', 0)
             benchmark_value ==
                 IF custom_benchmark # None /\ custom_benchmark[1] # 0
                 THEN custom_benchmark[1]
                 ELSE Get(benchmark_data, "value", 0)
             lower_is_better == Get(benchmark_data, "lower_is_better", FALSE)
             difference      == current_value - benchmark_value
             difference_pct  ==
                 IF benchmark_value # 0
                 THEN Frac(difference * 100 * Sign(benchmark_value), Abs(benchmark_value))
                 ELSE Frac(0, 1)
             performance     == Performance(difference, difference_pct, lower_is_better)
         IN  Some([metric_name     |-> metric_name,
                   current_value   |-> current_value,
                   benchmark_value |-> benchmark_value,
                   difference      |-> difference,
                   difference_pct  |-> difference_pct,
                   performance     |-> performance,
                   interpretation  |->
                       Interpret(metric_name, current_value, benchmark_value,
                                 difference_pct, performance, lower_is_better)])

RECURSIVE AnalyzeAllFrom(_, _, _)
\* the loop of analyze_all over metrics.items()
AnalyzeAllFrom(table, metrics, results) ==
    IF metrics = <<>> THEN results
    ELSE LET comparison == compare(table, metrics[1][1], metrics[1][2], None)
         IN  AnalyzeAllFrom(table, Tail(metrics),
                            IF comparison # None
                            THEN ItemPut(results, metrics[1][1], comparison[1])
                            ELSE results)

analyze_all(table, metrics) == AnalyzeAllFrom(table, metrics, <<>>)

Bucket_by_performance(table, name, comp) == comp.performance

\* get_benchmark_summary, lines 242-258: the list a comparison is appended to
Bucket(table, name, comp) ==
    LET bench_data      == Get(table, name, <<>>)
        lower_is_better == Get(bench_data, "lower_is_better", FALSE)
    IN  IF comp.performance = "above"
        THEN (IF lower_is_better THEN "below" ELSE "above")
        ELSE IF comp.performance = "below"
             THEN (IF lower_is_better THEN "above" ELSE "below")
             ELSE "at_benchmark"

RECURSIVE NamesIn(_, _, _)
\* the names of the comparisons appended to one list, in iteration order
NamesIn(table, items, list) ==
    IF items = <<>> THEN <<>>
    ELSE (IF Bucket(table, items[1][1], items[1][2]) = list
          THEN <<items[1][1]>> ELSE <<>>)
         \o NamesIn(table, Tail(items), list)

get_benchmark_summary(table, items) ==
    LET above        == NamesIn(table, items, "above")
        below        == NamesIn(table, items, "below")
        at_benchmark == NamesIn(table, items, "at_benchmark")
    IN  [raised                |-> FALSE,
         outperforming         |-> above,
         underperforming       |-> below,
         at_benchmark          |-> at_benchmark,
         outperforming_count   |-> Len(above),
         underperforming_count |-> Len(below),
         at_benchmark_count    |-> Len(at_benchmark),
         total_compared        |-> Len(items)]

(***************************************************************************)
(* Inputs of the analyzer: the custom table given to the constructor, and  *)
(* one call, either analyze_all(metrics) or compare(...), whose result the *)
(* caller keeps under the metric's name.                                   *)
(***************************************************************************)
MaxMetrics == 2

CustomBenchmarks ==
    {None,
     Some([bounce_rate |-> [value |-> 0, lower_is_better |-> TRUE]]),
     Some([donation_rate |-> [value |-> 1000]])}

MetricNames == {"bounce_rate", "avg_session_duration", "donation_rate", "unknown_metric"}

MetricValues == {0, 400, 550, 700, 1260}

CompareValues == MetricValues \cup {1259, 95000, 95001, 104999, 105000}

CompareCustom == {None, Some(0), Some(1000), Some(-1000), Some(100000)}

MetricDicts ==
    {m \in UNION {[1 .. n -> MetricNames \X MetricValues] : n \in 0 .. MaxMetrics} :
        \A i, j \in DOMAIN m : i # j => m[i][1] # m[j][1]}

BenchCalls ==
    [op : {"analyze_all"}, metrics : MetricDicts]
    \cup [op : {"compare"}, metric_name : MetricNames,
          current_value : CompareValues, custom_benchmark : CompareCustom]

ChangeIdle ==
    /\ change_args = [op |-> "none"]
    /\ change = NoResult

InitBenchmark ==
    /\ pc = "start"
    /\ \E custom \in CustomBenchmarks : benchmarks = BenchmarkAnalyzer(custom)
    /\ bench_call \in BenchCalls
    /\ comparisons = <<>>
    /\ bench_summary = NoResult
    /\ ChangeIdle
    /\ EngineIdle
    /\ DatesIdle
    /\ ThreadsIdle
    /\ RestIdle

Compare ==
    /\ pc = "start"
    /\ bench_call.op = "compare"
    /\ LET comparison == compare(benchmarks, bench_call.metric_name,
                                 bench_call.current_value, bench_call.custom_benchmark)
       IN  comparisons' = IF comparison = None THEN <<>>
                          ELSE <<<<bench_call.metric_name, comparison[1]>>>>
    /\ pc' = "compare"
    /\ UNCHANGED <<benchmarks, bench_call, bench_summary, change_vars,
                   engine_vars, date_vars, thread_vars, rest_vars>>

AnalyzeAll ==
    /\ pc = "start"
    /\ bench_call.op = "analyze_all"
    /\ comparisons' = analyze_all(benchmarks, bench_call.metrics)
    /\ pc' = "analyze_all"
    /\ UNCHANGED <<benchmarks, bench_call, bench_summary, change_vars,
                   engine_vars, date_vars, thread_vars, rest_vars>>

GetBenchmarkSummary ==
    /\ pc \in {"compare", "analyze_all"}
    /\ bench_summary' = get_benchmark_summary(benchmarks, comparisons)
    /\ pc' = "get_benchmark_summary"
    /\ UNCHANGED <<benchmarks, bench_call, comparisons, change_vars,
                   engine_vars, date_vars, thread_vars, rest_vars>>

NextBenchmark == Compare \/ AnalyzeAll \/ GetBenchmarkSummary

SpecBenchmark == InitBenchmark /\ [][NextBenchmark]_vars

(***************************************************************************)
(* Claims about the benchmark analyzer (checked under SpecBenchmark).      *)
(***************************************************************************)
Compared == pc \in {"compare", "analyze_all", "get_benchmark_summary"}

Summarized == pc = "get_benchmark_summary"

InList(list, name) == \E i \in DOMAIN list : list[i] = name

TableLowerIsBetter(name) ==
    name \in DOMAIN benchmarks
    /\ "lower_is_better" \in DOMAIN benchmarks[name]
    /\ benchmarks[name].lower_is_better

\* C9: for every BenchmarkComparison returned by compare(), performance is
\* at iff |difference_pct| < 5; otherwise it is above when difference > 0
\* and below when difference < 0, whether or not lower is better.
C9_DeadZone ==
    Compared =>
        \A i \in DOMAIN comparisons :
            LET comp == comparisons[i][2]
            IN  /\ (comp.performance = "at") <=>
                       Abs(comp.difference_pct.n) < 5 * comp.difference_pct.d
                /\ comp.performance # "at" =>
                       /\ comp.difference # 0
                       /\ (comp.performance = "above") <=> (comp.difference > 0)
                       /\ (comp.performance = "below") <=> (comp.difference < 0)

\* A difference of exactly 5.0 percent is not at, on a lower-is-better
\* metric that is above its benchmark.
C9_Witness ==
    /\ Compared
    /\ \E i \in DOMAIN comparisons :
          /\ Abs(comparisons[i][2].difference_pct.n) = 5 * comparisons[i][2].difference_pct.d
          /\ comparisons[i][2].performance # "at"
    /\ \E i \in DOMAIN comparisons :
          /\ TableLowerIsBetter(comparisons[i][1])
          /\ comparisons[i][2].performance = "above"

\* C10: get_benchmark_summary buckets a comparison by the rule of the
\* interpretation text: outperforming iff (below and lower is better) or
\* (above and not lower is better) iff the interpretation is the
\* outperforming template; underperforming iff it is the below-benchmark
\* template; at_benchmark iff performance is at.
C10_SummaryMatchesInterpretation ==
    Summarized =>
        \A i \in DOMAIN comparisons :
            LET name == comparisons[i][1]
                comp == comparisons[i][2]
                good == \/ comp.performance = "below" /\ TableLowerIsBetter(name)
                        \/ comp.performance = "above" /\ ~ TableLowerIsBetter(name)
            IN  /\ InList(bench_summary.outperforming, name) <=> good
                /\ good <=> (comp.interpretation.template = "outperforming")
                /\ InList(bench_summary.underperforming, name) <=>
                       (comp.interpretation.template = "below_benchmark")
                /\ InList(bench_summary.at_benchmark, name) <=> (comp.performance = "at")

\* bounce_rate 70 against the benchmark 55: above, bucketed underperforming.
C10_Witness ==
    /\ Summarized
    /\ \E i \in DOMAIN comparisons :
          /\ comparisons[i][1] = "bounce_rate"
          /\ comparisons[i][2].current_value = 700
          /\ comparisons[i][2].benchmark_value = 550
          /\ comparisons[i][2].performance = "above"
          /\ InList(bench_summary.underperforming, "bounce_rate")
          /\ ~ InList(bench_summary.outperforming, "bounce_rate")

\* The entries of metrics whose names are in the table, in iteration order.
Benchmarked(table, metrics) == SelectSeq(metrics, LAMBDA item : item[1] \in DOMAIN table)

\* C11: compare returns None iff metric_name has no entry in the table and no
\* custom_benchmark was given, and a BenchmarkComparison for that metric and
\* value in every other case; analyze_all returns exactly the entries of its
\* input whose names are in the table, each with the comparison of its value.
C11_NoneIffNoBenchmark ==
    /\ pc = "compare" =>
          /\ (comparisons = <<>>) <=>
                 (bench_call.metric_name \notin DOMAIN benchmarks
                  /\ bench_call.custom_benchmark = None)
          /\ comparisons # <<>> =>
                 /\ Len(comparisons) = 1
                 /\ comparisons[1][2].metric_name = bench_call.metric_name
                 /\ comparisons[1][2].current_value = bench_call.current_value
                 /\ comparisons[1][2].performance \in {"above", "below", "at"}
    /\ pc = "analyze_all" =>
          LET kept == Benchmarked(benchmarks, bench_call.metrics)
          IN  /\ Len(comparisons) = Len(kept)
              /\ \A i \in DOMAIN comparisons :
                    /\ comparisons[i][1] = kept[i][1]
                    /\ comparisons[i][2].metric_name = kept[i][1]
                    /\ comparisons[i][2].current_value = kept[i][2]

\* A metric the table lacks, compared against a custom benchmark of 100.0.
C11_Witness ==
    /\ pc = "compare"
    /\ bench_call.metric_name = "unknown_metric"
    /\ bench_call.custom_benchmark = Some(1000)
    /\ comparisons # <<>>
    /\ comparisons[1][2].benchmark_value = 1000

(***************************************************************************)
(* insights_engine.py: InsightsEngine.  Metric values are whole numbers    *)
(* (users, percent, seconds, positions).  A pandas DataFrame is            *)
(* [type |-> "DataFrame", rows]; a dict section is [type |-> "dict", d].   *)
(* A headline is kept as its template; the detail text is not modelled.    *)
(* A pass yields the insights it appended and whether it raised.           *)
(***************************************************************************)
DataFrame(rows) == [type |-> "DataFrame", rows |-> rows]

Dict(d) == [type |-> "dict", d |-> d]

\* config/settings.py: Settings, with the benchmark entries the engine reads
Settings ==
    [significant_change_threshold |-> 10,
     anomaly_threshold            |-> 25,
     benchmarks |-> [bounce_rate           |-> 55,
                     avg_session_duration  |-> 120,
                     organic_traffic_share |-> 40]]

\* str.lower() on the names that occur
Lower(str) ==
    CASE str = "Organic Search" -> "organic search"
      [] str = "Direct"         -> "direct"
      [] str = "Referral"       -> "referral"
      [] str = "Mobile"         -> "mobile"
      [] str = "Desktop"        -> "desktop"
      [] str = "Tablet"         -> "tablet"
      [] OTHER                  -> str

\* the rows of a frame whose column equals a value, after lower()
RowsWhereLower(rows, column, value) ==
    SelectSeq(rows, LAMBDA row : Lower(row[column]) = value)

RowsWhere(rows, column, value) ==
    SelectSeq(rows, LAMBDA row : row[column] = value)

RECURSIVE SumColumn(_, _)
SumColumn(rows, column) ==
    IF rows = <<>> THEN 0 ELSE rows[1][column] + SumColumn(Tail(rows), column)

\* DataFrame.head(n)
Head_n(rows, n) == SubSeq(rows, 1, IF Len(rows) < n THEN Len(rows) ELSE n)

Ok(out) == [raised |-> FALSE, out |-> out]

Fail(exc, out) == [raised |-> TRUE, exc |-> exc, out |-> out]

Insight(category, type, priority, headline, name, value, chg, recommendation) ==
    [category       |-> category,
     type           |-> type,
     priority       |-> priority,
     headline       |-> headline,
     metric_name    |-> name,
     metric_value   |-> value,
     metric_change  |-> chg,
     recommendation |-> recommendation]

\* _get_traffic_recommendation
GetTrafficRecommendation(chg) ==
    IF chg.direction = "down"
    THEN (IF chg.is_anomaly THEN "traffic_urgent_decline" ELSE "traffic_monitor")
    ELSE "traffic_maintain_momentum"

\* the section under a key, or the default of current.get(key, default)
Section(data, key, default) == Get(data, key, default)

TrafficVolume_priority_by_significance(curr_overview, prev_overview, settings_) ==
    LET users_change ==
            calculate_change(Get(curr_overview, "total_users", 0),
                             Get(prev_overview, "total_users", 0),
                             settings_.significant_change_threshold,
                             settings_.anomaly_threshold, FALSE)
    IN  IF users_change.is_significant
        THEN <<Insight("traffic",
                       IF users_change.direction = "up" THEN "positive" ELSE "negative",
                       IF users_change.is_significant THEN 2 ELSE 3,
                       IF users_change.direction = "up"
                       THEN "Website traffic increased" ELSE "Website traffic decreased",
                       "total_users",
                       Frac(Get(curr_overview, "total_users", 0), 1),
                       Some(users_change),
                       Some(GetTrafficRecommendation(users_change)))>>
        ELSE <<>>

\* _analyze_traffic, lines 90-113: the total-users check
TrafficVolume(curr_overview, prev_overview, settings_) ==
    LET users_change ==
            calculate_change(Get(curr_overview, "total_users", 0),
                             Get(prev_overview, "total_users", 0),
                             settings_.significant_change_threshold,
                             settings_.anomaly_threshold, FALSE)
    IN  IF users_change.is_significant
        THEN <<Insight("traffic",
                       IF users_change.direction = "up" THEN "positive" ELSE "negative",
                       IF users_change.is_anomaly THEN 2 ELSE 3,
                       IF users_change.direction = "up"
                       THEN "Website traffic increased" ELSE "Website traffic decreased",
                       "total_users",
                       Frac(Get(curr_overview, "total_users", 0), 1),
                       Some(users_change),
                       Some(GetTrafficRecommendation(users_change)))>>
        ELSE <<>>

\* _analyze_traffic, lines 115-145: new against returning visitors
NewUserShare(curr_overview) ==
    LET new_users    == Get(curr_overview, "new_users", 0)
        total_users  == Get(curr_overview, "total_users", 1)
        new_user_pct == IF total_users # 0
                        THEN Frac(new_users * 100 * Sign(total_users), Abs(total_users))
                        ELSE Frac(0, 1)
    IN  IF new_user_pct.n > 80 * new_user_pct.d
        THEN <<Insight("traffic", "opportunity", 3, "visitors are new users",
                       "new_user_percentage", new_user_pct, None,
                       Some("retention"))>>
        ELSE IF new_user_pct.n < 50 * new_user_pct.d
             THEN <<Insight("traffic", "positive", 4, "Strong returning visitor base",
                            "new_user_percentage", new_user_pct, None,
                            Some("expand_reach"))>>
             ELSE <<>>

AnalyzeTraffic_unguarded(current, previous, settings_) ==
    LET curr_overview == Section(current, "traffic_overview", Dict(<<>>)).d
        prev_overview == Section(previous, "traffic_overview", Dict(<<>>)).d
    IN  Ok(TrafficVolume(curr_overview, prev_overview, settings_)
           \o NewUserShare(curr_overview))

\* _analyze_traffic
AnalyzeTraffic(current, previous, settings_) ==
    LET curr_overview == Section(current, "traffic_overview", Dict(<<>>)).d
        prev_overview == Section(previous, "traffic_overview", Dict(<<>>)).d
    IN  IF DOMAIN curr_overview = {}
        THEN Ok(<<>>)
        ELSE Ok(TrafficVolume(curr_overview, prev_overview, settings_)
                \o NewUserShare(curr_overview))

\* _analyze_engagement, lines 157-193: bounce rate against the benchmark
BounceRate(curr_overview, prev_overview, settings_) ==
    LET bounce_rate      == Get(curr_overview, "bounce_rate", 0)
        prev_bounce      == Get(prev_overview, "bounce_rate", 0)
        benchmark_bounce == Get(settings_.benchmarks, "bounce_rate", 55)
        bounce_change    == calculate_change(bounce_rate, prev_bounce, 10, 25, TRUE)
    IN  IF bounce_rate > benchmark_bounce + 10
        THEN <<Insight("engagement", "negative", 2,
                       "Bounce rate significantly above nonprofit average",
                       "bounce_rate", Frac(bounce_rate, 1), Some(bounce_change),
                       Some("review_landing_pages"))>>
        ELSE IF bounce_rate < benchmark_bounce - 10
             THEN <<Insight("engagement", "positive", 4, "Excellent bounce rate",
                            "bounce_rate", Frac(bounce_rate, 1), Some(bounce_change),
                            None)>>
             ELSE <<>>

\* _analyze_engagement, lines 195-225: session duration against the benchmark
SessionDuration(curr_overview, settings_) ==
    LET avg_duration       == Get(curr_overview, "avg_session_duration", 0)
        benchmark_duration == Get(settings_.benchmarks, "avg_session_duration", 120)
    IN  IF 2 * avg_duration > 3 * benchmark_duration         \* > benchmark * 1.5
        THEN <<Insight("engagement", "positive", 3, "Above-average session duration",
                       "avg_session_duration", Frac(avg_duration, 1), None,
                       Some("apply_top_content_patterns"))>>
        ELSE IF 2 * avg_duration < benchmark_duration        \* < benchmark * 0.5
             THEN <<Insight("engagement", "negative", 2, "Low session duration",
                            "avg_session_duration", Frac(avg_duration, 1), None,
                            Some("improve_content_depth"))>>
             ELSE <<>>

\* _analyze_engagement
AnalyzeEngagement(current, previous, settings_) ==
    LET curr_overview == Section(current, "traffic_overview", Dict(<<>>)).d
        prev_overview == Section(previous, "traffic_overview", Dict(<<>>)).d
    IN  IF DOMAIN curr_overview = {}
        THEN Ok(<<>>)
        ELSE Ok(BounceRate(curr_overview, prev_overview, settings_)
                \o SessionDuration(curr_overview, settings_))

\* _analyze_acquisition, lines 238-268: organic search share
OrganicShare(rows, settings_) ==
    LET organic == RowsWhereLower(rows, "sessionDefaultChannelGroup", "organic search")
    IN  IF organic = <<>> THEN <<>>
        ELSE LET organic_share     == organic[1].session_share
                 benchmark_organic == Get(settings_.benchmarks, "organic_traffic_share", 40)
             IN  IF organic_share > benchmark_organic + 15
                 THEN <<Insight("acquisition", "positive", 3,
                                "Strong organic search presence",
                                "organic_share", Frac(organic_share, 1), None, None)>>
                 ELSE IF organic_share < benchmark_organic - 15
                      THEN <<Insight("acquisition", "opportunity", 2,
                                     "Organic search opportunity",
                                     "organic_share", Frac(organic_share, 1), None,
                                     Some("invest_in_seo"))>>
                      ELSE <<>>

\* _analyze_acquisition, lines 270-286: direct traffic share
DirectShare(rows) ==
    LET direct == RowsWhereLower(rows, "sessionDefaultChannelGroup", "direct")
    IN  IF direct = <<>> THEN <<>>
        ELSE IF direct[1].session_share > 40
             THEN <<Insight("acquisition", "neutral", 4, "High direct traffic",
                            "direct_share", Frac(direct[1].session_share, 1), None,
                            Some("utm_tagging"))>>
             ELSE <<>>

\* _analyze_acquisition: channels.empty raises on a value that is no DataFrame
AnalyzeAcquisition(current, previous, settings_) ==
    LET channels == Section(current, "traffic_by_channel", DataFrame(<<>>))
    IN  IF channels.type # "DataFrame"
        THEN Fail("AttributeError", <<>>)
        ELSE IF channels.rows = <<>>
             THEN Ok(<<>>)
             ELSE Ok(OrganicShare(channels.rows, settings_) \o DirectShare(channels.rows))

\* _analyze_content, lines 297-313: homepage dependency
HomepageShare(rows) ==
    LET homepage_data == RowsWhere(rows, "pagePath", "/")
    IN  IF homepage_data = <<>> THEN <<>>
        ELSE IF homepage_data[1].pct_of_total > 50
             THEN <<Insight("content", "opportunity", 3, "High homepage concentration",
                            "homepage_share", Frac(homepage_data[1].pct_of_total, 1),
                            None, Some("strengthen_internal_linking"))>>
             ELSE <<>>

\* _analyze_content, lines 315-330: content depth
Top3Concentration(rows) ==
    IF Len(rows) >= 3
    THEN LET top_3_share == SumColumn(Head_n(rows, 3), "pct_of_total")
         IN  IF top_3_share > 70
             THEN <<Insight("content", "opportunity", 3,
                            "Traffic concentrated in top 3 pages",
                            "top_3_concentration", Frac(top_3_share, 1), None,
                            Some("repromote_content"))>>
             ELSE <<>>
    ELSE <<>>

\* _analyze_content
AnalyzeContent(current, previous, settings_) ==
    LET top_pages == Section(current, "top_pages", DataFrame(<<>>))
    IN  IF top_pages.type # "DataFrame"
        THEN Fail("AttributeError", <<>>)
        ELSE IF top_pages.rows = <<>>
             THEN Ok(<<>>)
             ELSE Ok(HomepageShare(top_pages.rows) \o Top3Concentration(top_pages.rows))

\* _analyze_search, lines 342-363: click trend
SearchClicks(overview, prev_overview) ==
    LET clicks_change ==
            calculate_change(Get(overview, "total_clicks", 0),
                             Get(prev_overview, "total_clicks", 0), 10, 25, FALSE)
    IN  IF clicks_change.is_significant
        THEN <<Insight("search",
                       IF clicks_change.direction = "up" THEN "positive" ELSE "negative",
                       2,
                       IF clicks_change.direction = "up"
                       THEN "Search clicks increased" ELSE "Search clicks decreased",
                       "total_clicks", Frac(Get(overview, "total_clicks", 0), 1),
                       Some(clicks_change), None)>>
        ELSE <<>>

\* _analyze_search, lines 365-395: position
SearchPosition(overview) ==
    LET avg_position == Get(overview, "avg_position", 0)
    IN  IF avg_position > 20
        THEN <<Insight("search", "opportunity", 2,
                       "Average search position needs improvement",
                       "avg_position", Frac(avg_position, 1), None,
                       Some("improve_rankings"))>>
        ELSE IF avg_position <= 10
             THEN <<Insight("search", "positive", 3, "Strong search visibility",
                            "avg_position", Frac(avg_position, 1), None, None)>>
             ELSE <<>>

\* _analyze_search, lines 397-413: keyword opportunities
KeywordOpportunities(rows) ==
    IF rows # <<>> /\ Len(rows) >= 5
    THEN <<Insight("search", "opportunity", 2, "Found keyword opportunities",
                   "keyword_opportunities", Frac(Len(rows), 1), None,
                   Some("optimize_titles"))>>
    ELSE <<>>

\* _analyze_search: opportunities.empty raises on a value that is no
\* DataFrame, after the click and position insights were appended
AnalyzeSearch(current, previous, settings_) ==
    LET overview      == Section(current, "overview", Dict(<<>>)).d
        prev_overview == Section(previous, "overview", Dict(<<>>)).d
        opportunities == Section(current, "keyword_opportunities", DataFrame(<<>>))
        first         == SearchClicks(overview, prev_overview) \o SearchPosition(overview)
    IN  IF DOMAIN overview = {}
        THEN Ok(<<>>)
        ELSE IF opportunities.type # "DataFrame"
             THEN Fail("AttributeError", first)
             ELSE Ok(first \o KeywordOpportunities(opportunities.rows))

\* _analyze_opportunities, lines 423-444: mobile against desktop
MobileExperience(rows) ==
    LET mobile  == RowsWhereLower(rows, "deviceCategory", "mobile")
        desktop == RowsWhereLower(rows, "deviceCategory", "desktop")
    IN  IF mobile # <<>> /\ desktop # <<>>
        THEN LET mobile_bounce  == mobile[1].bounceRate
                 desktop_bounce == desktop[1].bounceRate
                 mobile_share   == mobile[1].user_share
             IN  IF mobile_share > 50 /\ mobile_bounce > desktop_bounce + 10
                 THEN <<Insight("opportunity", "negative", 1,
                                "Mobile experience needs attention",
                                "mobile_bounce_rate", Frac(mobile_bounce, 1), None,
                                Some("prioritize_mobile"))>>
                 ELSE <<>>
        ELSE <<>>

\* _analyze_opportunities
AnalyzeOpportunities(ga4_data, gsc_data, settings_) ==
    LET device_data == Section(ga4_data, "device_breakdown", DataFrame(<<>>))
    IN  IF device_data.type # "DataFrame"
        THEN Fail("AttributeError", <<>>)
        ELSE IF device_data.rows = <<>>
             THEN Ok(<<>>)
             ELSE Ok(MobileExperience(device_data.rows))

RECURSIVE InsertByPriority_before_equal(_, _)
InsertByPriority_before_equal(sorted, x) ==
    IF sorted = <<>> THEN <<x>>
    ELSE IF x.priority <= sorted[1].priority
         THEN <<x>> \o sorted
         ELSE <<sorted[1]>> \o InsertByPriority_before_equal(Tail(sorted), x)

RECURSIVE InsertByPriority(_, _)
\* one step of the stable sort: x goes behind every element whose priority
\* is not larger
InsertByPriority(sorted, x) ==
    IF sorted = <<>> THEN <<x>>
    ELSE IF x.priority < sorted[1].priority
         THEN <<x>> \o sorted
         ELSE <<sorted[1]>> \o InsertByPriority(Tail(sorted), x)

RECURSIVE SortFrom(_, _)
SortFrom(sorted, rest) ==
    IF rest = <<>> THEN sorted
    ELSE SortFrom(InsertByPriority(sorted, rest[1]), Tail(rest))

SortByPriority_unsorted(list) == list

\* self.insights.sort(key=lambda x: x.priority)
SortByPriority(list) == SortFrom(<<>>, list)

RECURSIVE RunPasses(_, _)
\* the passes in turn, each appending to self.insights; the first one that
\* raises ends the call with what was appended so far
RunPasses(passes, appended) ==
    IF passes = <<>> THEN Ok(appended)
    ELSE IF passes[1].raised
         THEN Fail(passes[1].exc, appended \o passes[1].out)
         ELSE RunPasses(Tail(passes), appended \o passes[1].out)

ResetInsights_kept(self_insights) == self_insights

\* analyze, line 65: self.insights = []
ResetInsights(self_insights) == <<>>

\* analyze on an engine holding self_insights: [raised, out]; out is
\* self.insights when the call ends
analyze(self_insights, ga4_current, ga4_previous, gsc_current, gsc_previous, settings_) ==
    LET ran == RunPasses(<<AnalyzeTraffic(ga4_current, ga4_previous, settings_),
                           AnalyzeEngagement(ga4_current, ga4_previous, settings_),
                           AnalyzeAcquisition(ga4_current, ga4_previous, settings_),
                           AnalyzeContent(ga4_current, ga4_previous, settings_),
                           AnalyzeSearch(gsc_current, gsc_previous, settings_),
                           AnalyzeOpportunities(ga4_current, gsc_current, settings_)>>,
                         ResetInsights(self_insights))
    IN  IF ran.raised THEN ran ELSE Ok(SortByPriority(ran.out))

get_executive_summary_without_attention(list) ==
    IF list = <<>>
    THEN <<[slot |-> "Insufficient data to generate executive summary."]>>
    ELSE LET positive      == SelectSeq(list, LAMBDA i : i.type = "positive")
             opportunities == SelectSeq(list, LAMBDA i : i.type = "opportunity")
             traffic       == SelectSeq(list, LAMBDA i : i.metric_name = "total_users")
         IN  (IF traffic # <<>> /\ traffic[1].metric_change # None
              THEN <<[slot      |-> "Website traffic",
                      direction |-> IF traffic[1].metric_change[1].direction = "up"
                                    THEN "grew" ELSE "declined",
                      change    |-> traffic[1].metric_change[1].change_pct,
                      visitors  |-> traffic[1].metric_value]>>
              ELSE <<>>)
             \o (IF positive # <<>>
                 THEN <<[slot |-> "Key strength", headline |-> positive[1].headline]>>
                 ELSE <<>>)
             \o (IF opportunities # <<>>
                 THEN <<[slot |-> "Primary opportunity",
                         headline |-> opportunities[1].headline]>>
                 ELSE <<>>)

get_executive_summary_last_of_each(list) ==
    IF list = <<>>
    THEN <<[slot |-> "Insufficient data to generate executive summary."]>>
    ELSE LET critical      == SelectSeq(list, LAMBDA i : i.priority <= 2)
             positive      == SelectSeq(list, LAMBDA i : i.type = "positive")
             opportunities == SelectSeq(list, LAMBDA i : i.type = "opportunity")
             traffic       == SelectSeq(list, LAMBDA i : i.metric_name = "total_users")
         IN  (IF traffic # <<>> /\ traffic[1].metric_change # None
              THEN <<[slot      |-> "Website traffic",
                      direction |-> IF traffic[1].metric_change[1].direction = "up"
                                    THEN "grew" ELSE "declined",
                      change    |-> traffic[1].metric_change[1].change_pct,
                      visitors  |-> traffic[1].metric_value]>>
              ELSE <<>>)
             \o (IF positive # <<>>
                 THEN <<[slot |-> "Key strength", headline |-> positive[Len(positive)].headline]>>
                 ELSE <<>>)
             \o (IF opportunities # <<>>
                 THEN <<[slot |-> "Primary opportunity",
                         headline |-> opportunities[Len(opportunities)].headline]>>
                 ELSE <<>>)
             \o (IF critical # <<>>
                 THEN <<[slot |-> "Requires attention",
                         headline |-> critical[Len(critical)].headline]>>
                 ELSE <<>>)

\* get_executive_summary: the sentences that are joined, or the fallback
get_executive_summary(list) ==
    IF list = <<>>
    THEN <<[slot |-> "Insufficient data to generate executive summary."]>>
    ELSE LET critical      == SelectSeq(list, LAMBDA i : i.priority <= 2)
             positive      == SelectSeq(list, LAMBDA i : i.type = "positive")
             opportunities == SelectSeq(list, LAMBDA i : i.type = "opportunity")
             traffic       == SelectSeq(list, LAMBDA i : i.metric_name = "total_users")
         IN  (IF traffic # <<>> /\ traffic[1].metric_change # None
              THEN <<[slot      |-> "Website traffic",
                      direction |-> IF traffic[1].metric_change[1].direction = "up"
                                    THEN "grew" ELSE "declined",
                      change    |-> traffic[1].metric_change[1].change_pct,
                      visitors  |-> traffic[1].metric_value]>>
              ELSE <<>>)
             \o (IF positive # <<>>
                 THEN <<[slot |-> "Key strength", headline |-> positive[1].headline]>>
                 ELSE <<>>)
             \o (IF opportunities # <<>>
                 THEN <<[slot |-> "Primary opportunity",
                         headline |-> opportunities[1].headline]>>
                 ELSE <<>>)
             \o (IF critical # <<>>
                 THEN <<[slot |-> "Requires attention", headline |-> critical[1].headline]>>
                 ELSE <<>>)

\* get_key_recommendations: the default of limit
DefaultLimit == 5

RECURSIVE RecommendationsFrom_one_more(_, _, _)
RecommendationsFrom_one_more(list, limit, recommendations) ==
    IF list = <<>> THEN recommendations
    ELSE RecommendationsFrom_one_more(
             Tail(list), limit,
             IF list[1].recommendation # None /\ Len(recommendations) <= limit
             THEN Append(recommendations, list[1].recommendation[1])
             ELSE recommendations)

RECURSIVE RecommendationsFrom(_, _, _)
\* the loop of get_key_recommendations
RecommendationsFrom(list, limit, recommendations) ==
    IF list = <<>> THEN recommendations
    ELSE RecommendationsFrom(
             Tail(list), limit,
             IF list[1].recommendation # None /\ Len(recommendations) < limit
             THEN Append(recommendations, list[1].recommendation[1])
             ELSE recommendations)

get_key_recommendations(list, limit) == RecommendationsFrom(list, limit, <<>>)

RECURSIVE GroupFrom(_, _)
\* the loop of _group_by_category
GroupFrom(list, grouped) ==
    IF list = <<>> THEN grouped
    ELSE LET category == list[1].category
             entry    == [headline |-> list[1].headline, type |-> list[1].type,
                          priority |-> list[1].priority]
             sofar    == IF category \in ItemKeys(grouped)
                         THEN ItemGet(grouped, category) ELSE <<>>
         IN  GroupFrom(Tail(list), ItemPut(grouped, category, Append(sofar, entry)))

\* _group_by_category
GroupByCategory(list) == GroupFrom(list, <<>>)

\* to_dict
to_dict(list) ==
    [executive_summary    |-> get_executive_summary(list),
     key_recommendations  |-> get_key_recommendations(list, DefaultLimit),
     insights             |->
         [i \in DOMAIN list |->
             [category       |-> list[i].category,
              type           |-> list[i].type,
              priority       |-> list[i].priority,
              headline       |-> list[i].headline,
              metric_name    |-> list[i].metric_name,
              metric_value   |-> list[i].metric_value,
              recommendation |-> list[i].recommendation]],
     insights_by_category |-> GroupByCategory(list)]

(***************************************************************************)
(* Inputs of analyze.  An input is put together from one choice per        *)
(* dimension.  Quiet holds for each dimension a value that triggers no     *)
(* insight, Loud one that triggers one, Rich the values around every       *)
(* threshold and the shapes a section can have: missing, the {} that       *)
(* ReportGenerator._safe_fetch puts in place of a failed fetch, an empty   *)
(* DataFrame.  The inputs are every mix of quiet and loud dimensions, and  *)
(* for each group of dimensions every rich value of the group against an   *)
(* all-quiet, an all-loud and an all-missing rest.                         *)
(***************************************************************************)
MaxKeywords == 5

MaxLimit == 2

Page(path, pct) == [pagePath |-> path, pct_of_total |-> pct]

Quiet ==
    [settings             |-> Settings,
     ga4_overview         |-> "present",
     total_users          |-> Some(10000),
     new_users            |-> Some(6000),
     bounce_rate          |-> Some(55),
     avg_session_duration |-> Some(120),
     ga4_prev             |-> Some([total_users |-> 10000, bounce_rate |-> 55]),
     channels_shape       |-> "frame",
     organic_share        |-> Some(40),
     direct_share         |-> Some(30),
     pages_shape          |-> "frame",
     pages                |-> <<Page("/a", 30), Page("/", 20), Page("/b", 10)>>,
     device_shape         |-> "frame",
     mobile               |-> Some(<<51, 60>>),
     desktop              |-> Some(50),
     gsc_overview         |-> "present",
     total_clicks         |-> Some(1000),
     avg_position         |-> Some(15),
     gsc_prev             |-> Some([total_clicks |-> 1000, avg_position |-> 15]),
     kw_shape             |-> "frame",
     kw_rows              |-> 0]

Loud ==
    [Quiet EXCEPT
     !.total_users          = Some(11000),
     !.new_users            = Some(9000),
     !.bounce_rate          = Some(66),
     !.avg_session_duration = Some(181),
     !.organic_share        = Some(24),
     !.direct_share         = Some(41),
     !.pages                = <<Page("/", 60), Page("/a", 10), Page("/b", 5)>>,
     !.mobile               = Some(<<51, 61>>),
     !.total_clicks         = Some(1100),
     !.avg_position         = Some(10),
     !.kw_rows              = MaxKeywords]

Absent ==
    [Quiet EXCEPT
     !.ga4_overview   = "absent",
     !.channels_shape = "absent",
     !.pages_shape    = "absent",
     !.device_shape   = "absent",
     !.gsc_overview   = "absent",
     !.kw_shape       = "absent"]

Rich ==
    [settings             |-> {Settings,
                               [Settings EXCEPT !.significant_change_threshold = 20,
                                                !.anomaly_threshold = 20]},
     ga4_overview         |-> {"absent", "present"},
     total_users          |-> {None, Some(0), Some(7500), Some(9000), Some(10000),
                               Some(10500), Some(11000), Some(12500)},
     new_users            |-> {None, Some(4999), Some(5000), Some(8000), Some(8001)},
     bounce_rate          |-> {None, Some(44), Some(45), Some(55), Some(65), Some(66)},
     avg_session_duration |-> {None, Some(59), Some(60), Some(120), Some(180), Some(181)},
     ga4_prev             |-> {None, Some(<<>>), Some([total_users |-> 0]),
                               Some([total_users |-> 10000, bounce_rate |-> 55])},
     channels_shape       |-> {"absent", "dict", "frame"},
     organic_share        |-> {None, Some(24), Some(25), Some(40), Some(55), Some(56)},
     direct_share         |-> {None, Some(40), Some(41)},
     pages_shape          |-> {"absent", "dict", "frame"},
     pages                |-> {<<>>,
                               <<Page("/", 51)>>,
                               <<Page("/", 50), Page("/a", 20)>>,
                               <<Page("/", 50), Page("/a", 20), Page("/b", 0)>>,
                               <<Page("/a", 40), Page("/b", 20), Page("/c", 11)>>,
                               <<Page("/a", 30), Page("/b", 10), Page("/c", 9), Page("/", 51)>>},
     device_shape         |-> {"absent", "dict", "frame"},
     mobile               |-> {None, Some(<<50, 70>>), Some(<<51, 60>>), Some(<<51, 61>>)},
     desktop              |-> {None, Some(50)},
     gsc_overview         |-> {"absent", "present"},
     total_clicks         |-> {None, Some(0), Some(900), Some(1000), Some(1050), Some(1100)},
     avg_position         |-> {None, Some(10), Some(11), Some(20), Some(21)},
     gsc_prev             |-> {None, Some(<<>>),
                               Some([total_clicks |-> 1000, avg_position |-> 15])},
     kw_shape             |-> {"absent", "dict", "frame"},
     kw_rows              |-> 0 .. MaxKeywords]

Dimensions ==
    <<"settings", "ga4_overview", "total_users", "new_users", "bounce_rate",
      "avg_session_duration", "ga4_prev", "channels_shape", "organic_share",
      "direct_share", "pages_shape", "pages", "device_shape", "mobile", "desktop",
      "gsc_overview", "total_clicks", "avg_position", "gsc_prev", "kw_shape", "kw_rows">>

Groups ==
    {{"settings", "ga4_overview", "total_users", "ga4_prev"},
     {"total_users", "new_users"},
     {"bounce_rate", "avg_session_duration"},
     {"channels_shape", "organic_share", "direct_share"},
     {"pages_shape", "pages"},
     {"device_shape", "mobile", "desktop"},
     {"gsc_overview", "total_clicks", "gsc_prev"},
     {"avg_position", "kw_shape", "kw_rows"},
     {"ga4_prev", "gsc_prev"}}

RECURSIVE Assignments(_, _)
\* every function that takes on each dimension one of its choices
Assignments(dims, choices) ==
    IF dims = <<>> THEN {<<>>}
    ELSE {[k \in DOMAIN a \cup {dims[1]} |-> IF k = dims[1] THEN v ELSE a[k]] :
             a \in Assignments(Tail(dims), choices), v \in choices[dims[1]]}

InputChoices ==
    {[d \in DOMAIN Quiet |-> {Quiet[d], Loud[d]}]}
    \cup {[d \in DOMAIN Quiet |-> IF d \in g THEN Rich[d] ELSE {Quiet[d]}] : g \in Groups}
    \cup {[d \in DOMAIN Quiet |-> IF d \in g THEN Rich[d] ELSE {Loud[d]}] : g \in Groups}
    \cup {[d \in DOMAIN Quiet |-> IF d \in g THEN Rich[d] ELSE {Absent[d]}] : g \in Groups}

\* a dict with the fields that are given
Fields(a, names) == [f \in {n \in names : a[n] # None} |-> a[f][1]]

\* a section holding a DataFrame, or the {} of a failed fetch
FrameSection(shape, rows) == IF shape = "frame" THEN DataFrame(rows) ELSE Dict(<<>>)

Channel(name, share) ==
    [sessionDefaultChannelGroup |-> name, sessions |-> share * 10, session_share |-> share]

Device(name, share, bounce) ==
    [deviceCategory |-> name, user_share |-> share, bounceRate |-> bounce]

Ga4Current(a) ==
    LET sections ==
            [traffic_overview |->
                 Dict(Fields(a, {"total_users", "new_users", "bounce_rate",
                                 "avg_session_duration"})),
             traffic_by_channel |->
                 FrameSection(a.channels_shape,
                     (IF a.direct_share # None
                      THEN <<Channel("Direct", a.direct_share[1])>> ELSE <<>>)
                     \o (IF a.organic_share # None
                         THEN <<Channel("Organic Search", a.organic_share[1])>> ELSE <<>>)),
             top_pages |-> FrameSection(a.pages_shape, a.pages),
             device_breakdown |->
                 FrameSection(a.device_shape,
                     (IF a.desktop # None
                      THEN <<Device("desktop",
                                    IF a.mobile # None THEN 100 - a.mobile[1][1] ELSE 100,
                                    a.desktop[1])>>
                      ELSE <<>>)
                     \o (IF a.mobile # None
                         THEN <<Device("mobile", a.mobile[1][1], a.mobile[1][2])>>
                         ELSE <<>>))]
        present ==
            {k \in DOMAIN sections :
                /\ k = "traffic_overview"   => a.ga4_overview # "absent"
                /\ k = "traffic_by_channel" => a.channels_shape # "absent"
                /\ k = "top_pages"          => a.pages_shape # "absent"
                /\ k = "device_breakdown"   => a.device_shape # "absent"}
    IN  [k \in present |-> sections[k]]

Previous(prev, key) == IF prev = None THEN <<>> ELSE [k \in {key} |-> Dict(prev[1])]

GscCurrent(a) ==
    LET sections ==
            [overview |-> Dict(Fields(a, {"total_clicks", "avg_position"})),
             keyword_opportunities |->
                 FrameSection(a.kw_shape, [i \in 1 .. a.kw_rows |-> [impressions |-> 100 * i]])]
        present ==
            {k \in DOMAIN sections :
                /\ k = "overview"              => a.gsc_overview # "absent"
                /\ k = "keyword_opportunities" => a.kw_shape # "absent"}
    IN  [k \in present |-> sections[k]]

AnalyzeArgs(a) ==
    [ga4_current  |-> Ga4Current(a),
     ga4_previous |-> Previous(a.ga4_prev, "traffic_overview"),
     gsc_current  |-> GscCurrent(a),
     gsc_previous |-> Previous(a.gsc_prev, "overview")]

Limits == (0 .. MaxLimit) \cup {DefaultLimit}

\* the arguments of a later call on the same engine
Reruns ==
    {AnalyzeArgs(a) : a \in {Quiet, Loud, Absent, [Loud EXCEPT !.pages_shape = "dict"]}}

\* InsightsEngine.__init__ of the engine, and a caller about to call analyze
Init ==
    /\ pc = "start"
    /\ \E choices \in InputChoices :
          \E a \in Assignments(Dimensions, choices) :
              /\ settings = a.settings
              /\ args = AnalyzeArgs(a)
    /\ insights = <<>>
    /\ earlier = 0
    /\ returned = NoResult
    /\ executive_summary = NoResult
    /\ key_recommendations = NoResult
    /\ as_dict = NoResult
    /\ ChangeIdle
    /\ BenchIdle
    /\ DatesIdle
    /\ ThreadsIdle
    /\ RestIdle

\* one call of analyze on the engine, with the arguments call_args
Call(call_args) ==
    LET ran == analyze(insights, call_args.ga4_current, call_args.ga4_previous,
                       call_args.gsc_current, call_args.gsc_previous, settings)
    IN  /\ args' = call_args
        /\ earlier' = Len(insights)
        /\ insights' = ran.out
        /\ returned' = IF ran.raised THEN Raise(ran.exc)
                       ELSE [raised |-> FALSE, value |-> ran.out]
        /\ pc' = IF ran.raised THEN "raised" ELSE "analyze"
        /\ executive_summary' = NoResult
        /\ key_recommendations' = NoResult
        /\ as_dict' = NoResult
        /\ UNCHANGED <<settings, change_vars, bench_vars, date_vars, thread_vars, rest_vars>>

\* the first call of analyze
Analyze ==
    /\ pc = "start"
    /\ Call(args)

\* a later call on the same engine, with the same or with other arguments,
\* made as ReportGenerator._generate_insights makes it for the next report:
\* once to_dict was taken, or right after a call that raised
AnalyzeAgain ==
    /\ pc = "raised" \/ as_dict # NoResult
    /\ \E call_args \in Reruns \cup {args} : Call(call_args)

\* where the caller stands after reading from the engine
AfterGet == IF pc \in {"raised", "get_after_raise"} THEN "get_after_raise" ELSE "get"

\* The caller reads the engine through the getters or through to_dict.
GetExecutiveSummary ==
    /\ pc # "start"
    /\ as_dict = NoResult
    /\ executive_summary = NoResult
    /\ executive_summary' = [raised |-> FALSE, value |-> get_executive_summary(insights)]
    /\ pc' = AfterGet
    /\ UNCHANGED <<settings, args, insights, earlier, returned, key_recommendations,
                   as_dict, change_vars, bench_vars, date_vars, thread_vars, rest_vars>>

GetKeyRecommendations ==
    /\ pc # "start"
    /\ as_dict = NoResult
    /\ key_recommendations = NoResult
    /\ \E limit \in Limits :
          key_recommendations' =
              [raised |-> FALSE, limit |-> limit,
               value |-> get_key_recommendations(insights, limit)]
    /\ pc' = AfterGet
    /\ UNCHANGED <<settings, args, insights, earlier, returned, executive_summary,
                   as_dict, change_vars, bench_vars, date_vars, thread_vars, rest_vars>>

ToDict ==
    /\ pc # "start"
    /\ as_dict = NoResult
    /\ executive_summary = NoResult
    /\ key_recommendations = NoResult
    /\ as_dict' = [raised |-> FALSE, value |-> to_dict(insights)]
    /\ pc' = AfterGet
    /\ UNCHANGED <<settings, args, insights, earlier, returned, executive_summary,
                   key_recommendations, change_vars, bench_vars, date_vars, thread_vars, rest_vars>>

Next ==
    Analyze \/ AnalyzeAgain \/ GetExecutiveSummary \/ GetKeyRecommendations \/ ToDict

Spec == Init /\ [][Next]_vars

(***************************************************************************)
(* Claims about the insights engine (checked under Spec).                  *)
(***************************************************************************)
Analyzed == pc \in {"analyze", "get"}

CurrentOverview == Section(args.ga4_current, "traffic_overview", Dict(<<>>)).d

PreviousOverview == Section(args.ga4_previous, "traffic_overview", Dict(<<>>)).d

SearchOverview == Section(args.gsc_current, "overview", Dict(<<>>)).d

About(list, metric_name) == SelectSeq(list, LAMBDA i : i.metric_name = metric_name)

\* C1: the list analyze returns is sorted non-decreasing by priority, for
\* every combination of triggered passes; the priority-1 mobile insight,
\* appended last, comes before every insight of priority 2..4.
C1_SortedByPriority ==
    Analyzed =>
        /\ returned.value = insights
        /\ \A i, j \in DOMAIN returned.value :
              i < j => returned.value[i].priority <= returned.value[j].priority
        /\ \A i, j \in DOMAIN returned.value :
              (returned.value[i].metric_name = "mobile_bounce_rate"
               /\ returned.value[j].priority > 1) => i < j

\* The mobile insight is first of a list with priorities 2, 3 and 4 behind it.
C1_Witness ==
    /\ Analyzed
    /\ Len(returned.value) >= 4
    /\ returned.value[1].metric_name = "mobile_bounce_rate"
    /\ \A p \in 2 .. 4 : \E i \in DOMAIN returned.value : returned.value[i].priority = p

\* C2: analyze never raises when sections are missing or empty, the {} of a
\* failed fetch included.  Stated as is; the code violates it.
C2_NeverRaises == pc # "raised" /\ ~ returned.raised

\* C3: on entirely empty ga4_current and gsc_current maps, whatever the
\* previous maps, analyze returns an empty list, get_executive_summary the
\* fallback string and get_key_recommendations an empty list.
C3_EmptyInput ==
    (pc # "start" /\ DOMAIN args.ga4_current = {} /\ DOMAIN args.gsc_current = {}) =>
        /\ Analyzed
        /\ returned.value = <<>>
        /\ executive_summary # NoResult =>
              executive_summary.value =
                  <<[slot |-> "Insufficient data to generate executive summary."]>>
        /\ key_recommendations # NoResult => key_recommendations.value = <<>>

C3_Witness ==
    /\ pc = "get"
    /\ DOMAIN args.ga4_current = {}
    /\ DOMAIN args.gsc_current = {}
    /\ DOMAIN args.ga4_previous # {}
    /\ returned.value = <<>>
    /\ executive_summary # NoResult
    /\ key_recommendations # NoResult
    /\ key_recommendations.limit > 0

\* C4: missing data contributes no insight about that data: no traffic
\* volume insight without a previous traffic_overview, no search clicks
\* insight without a previous overview, and no insight about a field that a
\* non-empty current section lacks.  Stated as is; the code violates it.
C4_MissingDataNoInsight ==
    Analyzed =>
        /\ "traffic_overview" \notin DOMAIN args.ga4_previous =>
              About(returned.value, "total_users") = <<>>
        /\ "overview" \notin DOMAIN args.gsc_previous =>
              About(returned.value, "total_clicks") = <<>>
        /\ (DOMAIN CurrentOverview # {} /\ "bounce_rate" \notin DOMAIN CurrentOverview) =>
              About(returned.value, "bounce_rate") = <<>>
        /\ (DOMAIN CurrentOverview # {}
            /\ "avg_session_duration" \notin DOMAIN CurrentOverview) =>
              About(returned.value, "avg_session_duration") = <<>>
        /\ (DOMAIN CurrentOverview # {} /\ "new_users" \notin DOMAIN CurrentOverview) =>
              About(returned.value, "new_user_percentage") = <<>>
        /\ (DOMAIN SearchOverview # {} /\ "avg_position" \notin DOMAIN SearchOverview) =>
              About(returned.value, "avg_position") = <<>>

\* The percent change of total_users reaches a threshold (calculate_change's
\* policy for a zero previous value included).
UsersChangeReaches(threshold) ==
    LET current  == Get(CurrentOverview, "total_users", 0)
        previous == Get(PreviousOverview, "total_users", 0)
    IN  IF previous = 0
        THEN current # 0 /\ 100 >= threshold
        ELSE Abs(current - previous) * 100 >= threshold * Abs(previous)

UsersWentUp ==
    LET current  == Get(CurrentOverview, "total_users", 0)
        previous == Get(PreviousOverview, "total_users", 0)
    IN  IF previous = 0 THEN current # 0 ELSE (current - previous) * Sign(previous) > 0

\* C5: with a current traffic_overview, analyze emits exactly one
\* total_users insight iff |percent change of total_users| >=
\* significant_change_threshold (inclusive) and none otherwise; its priority
\* is 2 iff |change| >= anomaly_threshold, else 3; its type is positive when
\* the direction is up and negative otherwise.
C5_TrafficVolume ==
    (Analyzed /\ DOMAIN CurrentOverview # {}) =>
        LET found == About(returned.value, "total_users")
        IN  /\ Len(found) = IF UsersChangeReaches(settings.significant_change_threshold)
                            THEN 1 ELSE 0
            /\ \A i \in DOMAIN found :
                  /\ found[i].priority =
                        IF UsersChangeReaches(settings.anomaly_threshold) THEN 2 ELSE 3
                  /\ found[i].type = IF UsersWentUp THEN "positive" ELSE "negative"
                  /\ (found[i].metric_change[1].direction = "up") <=> UsersWentUp
                  /\ found[i].category = "traffic"

\* 11000 against 10000 with thresholds 10 and 25: one positive insight of
\* priority 3.
C5_Witness ==
    /\ Analyzed
    /\ settings.significant_change_threshold = 10
    /\ settings.anomaly_threshold = 25
    /\ Get(CurrentOverview, "total_users", 0) = 11000
    /\ Get(PreviousOverview, "total_users", 0) = 10000
    /\ Len(About(returned.value, "total_users")) = 1
    /\ About(returned.value, "total_users")[1].priority = 3
    /\ About(returned.value, "total_users")[1].type = "positive"

\* The place of a check in the fixed sequence of passes: traffic, engagement,
\* acquisition, content, search, opportunities, and the checks of a pass in
\* the order the pass makes them.
CheckOrder(metric_name) ==
    CASE metric_name = "total_users"           -> 1
      [] metric_name = "new_user_percentage"   -> 2
      [] metric_name = "bounce_rate"           -> 3
      [] metric_name = "avg_session_duration"  -> 4
      [] metric_name = "organic_share"         -> 5
      [] metric_name = "direct_share"          -> 6
      [] metric_name = "homepage_share"        -> 7
      [] metric_name = "top_3_concentration"   -> 8
      [] metric_name = "total_clicks"          -> 9
      [] metric_name = "avg_position"          -> 10
      [] metric_name = "keyword_opportunities" -> 11
      [] metric_name = "mobile_bounce_rate"    -> 12

PassOf(category) ==
    CASE category = "traffic"     -> 1
      [] category = "engagement"  -> 2
      [] category = "acquisition" -> 3
      [] category = "content"     -> 4
      [] category = "search"      -> 5
      [] category = "opportunity" -> 6

\* Insights of equal priority stand in pass order, and within a pass in the
\* order of its checks.
TiesInPassOrder(list) ==
    \A i, j \in DOMAIN list :
        (i < j /\ list[i].priority = list[j].priority) =>
            /\ PassOf(list[i].category) <= PassOf(list[j].category)
            /\ CheckOrder(list[i].metric_name) < CheckOrder(list[j].metric_name)

\* C12: in the list analyze returns, insights of equal priority keep the
\* order traffic, engagement, acquisition, content, search, opportunities
\* and within a pass the order of its checks; a call with the arguments of
\* the call before it returns the same list.
C12_StableOrder ==
    /\ [](Analyzed => TiesInPassOrder(returned.value))
    /\ [][(Analyzed /\ Analyzed' /\ args' = args) => returned' = returned]_vars

\* A repeated call has returned a list in which a search insight follows an
\* engagement insight and a traffic insight of its priority 2.
C12_Witness ==
    /\ pc = "analyze"
    /\ earlier > 0
    /\ earlier = Len(returned.value)
    /\ \E i, j, k \in DOMAIN returned.value :
          /\ i < j /\ j < k
          /\ returned.value[i].priority = 2 /\ returned.value[i].category = "traffic"
          /\ returned.value[j].priority = 2 /\ returned.value[j].category = "engagement"
          /\ returned.value[k].priority = 2 /\ returned.value[k].category = "search"

Fallback == <<[slot |-> "Insufficient data to generate executive summary."]>>

SlotOrder(slot) ==
    CASE slot = "Website traffic"     -> 1
      [] slot = "Key strength"        -> 2
      [] slot = "Primary opportunity" -> 3
      [] slot = "Requires attention"  -> 4
      [] OTHER                        -> 0

HasSlot(summary, slot) == \E k \in DOMAIN summary : summary[k].slot = slot

SlotOf(summary, slot) == summary[CHOOSE k \in DOMAIN summary : summary[k].slot = slot]

\* The first insight of the list that passes the test is at index i.
IsFirst(list, i, Test(_)) ==
    /\ i \in DOMAIN list
    /\ Test(list[i])
    /\ \A k \in 1 .. i - 1 : ~ Test(list[k])

\* The slot is in the summary iff an insight passes the test, and then it
\* carries the headline of the first one that does.
SlotFromFirst(summary, slot, list, Test(_)) ==
    /\ HasSlot(summary, slot) <=> \E i \in DOMAIN list : Test(list[i])
    /\ \A i \in DOMAIN list :
          IsFirst(list, i, Test) => SlotOf(summary, slot).headline = list[i].headline

\* C13: get_executive_summary joins, in this order, the traffic lead
\* sentence (iff an insight about total_users exists), Key strength with the
\* headline of the first positive insight, Primary opportunity with the
\* first opportunity insight, Requires attention with the first insight of
\* priority <= 2; a slot without source is skipped, and the fallback is
\* returned iff the insight list is empty.
C13_ExecutiveSummary ==
    executive_summary # NoResult =>
        LET summary == executive_summary.value
        IN  /\ (summary = Fallback) <=> (insights = <<>>)
            /\ insights # <<>> =>
                  /\ \A k \in DOMAIN summary : SlotOrder(summary[k].slot) > 0
                  /\ \A k, l \in DOMAIN summary :
                        k < l => SlotOrder(summary[k].slot) < SlotOrder(summary[l].slot)
                  /\ HasSlot(summary, "Website traffic") <=>
                        \E i \in DOMAIN insights : insights[i].metric_name = "total_users"
                  /\ \A i \in DOMAIN insights :
                        IsFirst(insights, i, LAMBDA x : x.metric_name = "total_users") =>
                            /\ SlotOf(summary, "Website traffic").visitors =
                                   insights[i].metric_value
                            /\ (SlotOf(summary, "Website traffic").direction = "grew")
                                   <=> (insights[i].type = "positive")
                  /\ SlotFromFirst(summary, "Key strength", insights,
                                   LAMBDA x : x.type = "positive")
                  /\ SlotFromFirst(summary, "Primary opportunity", insights,
                                   LAMBDA x : x.type = "opportunity")
                  /\ SlotFromFirst(summary, "Requires attention", insights,
                                   LAMBDA x : x.priority <= 2)

\* All four sentences, from a list with two positive insights whose first
\* element is not positive.
C13_Witness ==
    /\ executive_summary # NoResult
    /\ Len(executive_summary.value) = 4
    /\ Len(SelectSeq(insights, LAMBDA x : x.type = "positive")) >= 2
    /\ insights[1].type # "positive"
    /\ executive_summary.value[4].headline = insights[1].headline

Recommending(list) == SelectSeq(list, LAMBDA x : x.recommendation # None)

\* C14: get_key_recommendations(limit) returns the recommendations of the
\* first limit insights that have one, in list order, duplicates kept; its
\* length is min(limit, number of insights with a recommendation), for every
\* limit >= 0.
C14_KeyRecommendations ==
    key_recommendations # NoResult =>
        LET given == Recommending(insights)
            limit == key_recommendations.limit
            value == key_recommendations.value
        IN  /\ Len(value) = IF limit < Len(given) THEN limit ELSE Len(given)
            /\ \A k \in DOMAIN value : value[k] = given[k].recommendation[1]

\* A limit of 2 cuts a list with at least three recommendations whose first
\* insight has none.
C14_Witness ==
    /\ key_recommendations # NoResult
    /\ key_recommendations.limit = 2
    /\ Len(key_recommendations.value) = 2
    /\ Len(Recommending(insights)) >= 3
    /\ insights[1].recommendation = None
    /\ key_recommendations.value[1] = insights[2].recommendation[1]

\* What an engine that was just constructed returns for the arguments of
\* the latest call.
FreshEngine ==
    analyze(<<>>, args.ga4_current, args.ga4_previous,
            args.gsc_current, args.gsc_previous, settings)

\* C15: after any sequence of analyze calls on one engine, the list of the
\* latest call, and the executive summary, the recommendations and the
\* to_dict taken after it, are those of a fresh engine given the same
\* arguments; no insight of an earlier call survives.
C15_NoCrossRunMemory ==
    pc # "start" =>
        /\ insights = FreshEngine.out
        /\ returned.raised <=> FreshEngine.raised
        /\ ~ returned.raised => returned.value = FreshEngine.out
        /\ executive_summary # NoResult =>
              executive_summary.value = get_executive_summary(FreshEngine.out)
        /\ key_recommendations # NoResult =>
              key_recommendations.value =
                  get_key_recommendations(FreshEngine.out, key_recommendations.limit)
        /\ as_dict # NoResult => as_dict.value = to_dict(FreshEngine.out)

\* An engine that held insights of an earlier call has analyzed empty maps:
\* nothing is left of them in the list or in to_dict.
C15_Witness ==
    /\ earlier > 0
    /\ DOMAIN args.ga4_current = {}
    /\ ~ returned.raised
    /\ returned.value = <<>>
    /\ as_dict # NoResult
    /\ as_dict.value.insights = <<>>
    /\ as_dict.value.executive_summary = Fallback

(***************************************************************************)
(* dates.py: quarters and comparison periods.  A date text is kept as the  *)
(* numbers the f-string writes, "<year>-MM-DD" with the year unpadded; a   *)
(* label "<quarter> <year>" as the pair of its parts.                      *)
(***************************************************************************)

\* str.upper() on the quarter names that occur
Upper(str) ==
    CASE str = "q1" -> "Q1"
      [] str = "q2" -> "Q2"
      [] str = "q3" -> "Q3"
      [] str = "q4" -> "Q4"
      [] OTHER      -> str

DateText(year, month, day) == [year |-> year, month |-> month, day |-> day]

Label(quarter, year) == [quarter |-> quarter, year |-> year]

DatePeriod(start_date, end_date, label) ==
    [start_date |-> start_date, end_date |-> end_date, label |-> label]

\* get_quarter_dates: the lookup raises KeyError on a name the table lacks
get_quarter_dates(quarter, year) ==
    LET quarters ==
            [Q1 |-> <<DateText(year, 1, 1),  DateText(year, 3, 31)>>,
             Q2 |-> <<DateText(year, 4, 1),  DateText(year, 6, 30)>>,
             Q3 |-> <<DateText(year, 7, 1),  DateText(year, 9, 30)>>,
             Q4 |-> <<DateText(year, 10, 1), DateText(year, 12, 31)>>]
    IN  IF Upper(quarter) \in DOMAIN quarters
        THEN [raised |-> FALSE, val |-> quarters[Upper(quarter)]]
        ELSE Raise("KeyError")

get_previous_quarter_same_year(quarter, year) ==
    LET quarters == <<"Q1", "Q2", "Q3", "Q4">>
    IN  IF \A i \in DOMAIN quarters : quarters[i] # Upper(quarter)
        THEN Raise("ValueError")
        ELSE LET idx == (CHOOSE i \in DOMAIN quarters : quarters[i] = Upper(quarter)) - 1
             IN  [raised |-> FALSE,
                  val |-> IF idx = 0 THEN <<"Q4", year>> ELSE <<quarters[idx], year>>]

\* get_previous_quarter: list.index raises ValueError on a name not in the
\* list; idx counts from 0 as in the code
get_previous_quarter(quarter, year) ==
    LET quarters == <<"Q1", "Q2", "Q3", "Q4">>
    IN  IF \A i \in DOMAIN quarters : quarters[i] # Upper(quarter)
        THEN Raise("ValueError")
        ELSE LET idx == (CHOOSE i \in DOMAIN quarters : quarters[i] = Upper(quarter)) - 1
             IN  [raised |-> FALSE,
                  val |-> IF idx = 0 THEN <<"Q4", year - 1>> ELSE <<quarters[idx], year>>]

ComparisonPeriods(current, previous, comparison_type) ==
    [raised |-> FALSE, current |-> current, previous |-> previous,
     comparison_type |-> comparison_type]

get_comparison_periods(quarter, year, comparison_type) ==
    LET current == get_quarter_dates(quarter, year)
    IN  IF current.raised THEN current
        ELSE LET current_period ==
                     DatePeriod(current.val[1], current.val[2], Label(quarter, year))
             IN  IF comparison_type = "yoy"
                 THEN LET prev == get_quarter_dates(quarter, year - 1)
                      IN  IF prev.raised THEN prev
                          ELSE ComparisonPeriods(
                                   current_period,
                                   DatePeriod(prev.val[1], prev.val[2],
                                              Label(quarter, year - 1)),
                                   comparison_type)
                 ELSE IF comparison_type = "qoq"
                      THEN LET prev_q == get_previous_quarter(quarter, year)
                           IN  IF prev_q.raised THEN prev_q
                               ELSE LET prev == get_quarter_dates(prev_q.val[1],
                                                                  prev_q.val[2])
                                    IN  IF prev.raised THEN prev
                                        ELSE ComparisonPeriods(
                                                 current_period,
                                                 DatePeriod(prev.val[1], prev.val[2],
                                                            Label(prev_q.val[1],
                                                                  prev_q.val[2])),
                                                 comparison_type)
                      ELSE Raise("ValueError")

\* datetime.strptime(text, "%Y-%m-%d").date(): %Y takes exactly four digits,
\* and the text has the year as the f-string wrote it
Strptime(text) ==
    IF text.year >= 1000 /\ text.year <= 9999
    THEN [raised |-> FALSE, val |-> text]
    ELSE Raise("ValueError")

IsLeap(year) == year % 4 = 0 /\ (year % 100 # 0 \/ year % 400 = 0)

\* the day number of a date, as date subtraction counts it
Ordinal(date) ==
    LET y == date.year - 1
        before_month == <<0, 31, 59, 90, 120, 151, 181, 212, 243, 273, 304, 334>>
    IN  y * 365 + (y \div 4) - (y \div 100) + (y \div 400)
        + before_month[date.month]
        + (IF date.month > 2 /\ IsLeap(date.year) THEN 1 ELSE 0)
        + date.day

Days_exclusive(period) ==
    LET start == Strptime(period.start_date)
        end   == Strptime(period.end_date)
    IN  IF end.raised THEN end
        ELSE IF start.raised THEN start
        ELSE [raised |-> FALSE, val |-> Ordinal(end.val) - Ordinal(start.val)]

\* DatePeriod.days: (self.end - self.start).days + 1
Days(period) ==
    LET start == Strptime(period.start_date)
        end   == Strptime(period.end_date)
    IN  IF end.raised THEN end
        ELSE IF start.raised THEN start
        ELSE [raised |-> FALSE, val |-> Ordinal(end.val) - Ordinal(start.val) + 1]

(***************************************************************************)
(* Inputs of get_comparison_periods: the quarter names, a lower-case one   *)
(* and names outside the table; years around the four-digit range, leap    *)
(* years and century years; the two modes and other texts.                 *)
(***************************************************************************)
QuarterInputs == {"Q1", "Q2", "Q3", "Q4", "q2", "Q5", ""}

YearInputs == {999, 1000, 1001, 1900, 2000, 2023, 2024, 2025, 9999, 10000}

ModeInputs == {"yoy", "qoq", "mom", "custom", "YOY", ""}

InitPeriods ==
    /\ pc = "start"
    /\ period_args \in [quarter : QuarterInputs, year : YearInputs,
                         comparison_type : ModeInputs]
    /\ periods = NoResult
    /\ days = NoResult
    /\ ChangeIdle
    /\ BenchIdle
    /\ EngineIdle
    /\ ThreadsIdle
    /\ RestIdle

GetComparisonPeriods ==
    /\ pc = "start"
    /\ periods' = get_comparison_periods(period_args.quarter, period_args.year,
                                         period_args.comparison_type)
    /\ pc' = "get_comparison_periods"
    /\ UNCHANGED <<period_args, days, change_vars, bench_vars, engine_vars, thread_vars, rest_vars>>

\* the caller reads current.days, then previous.days
ReadDays ==
    /\ pc = "get_comparison_periods"
    /\ ~ periods.raised
    /\ LET current  == Days(periods.current)
           previous == Days(periods.previous)
       IN  days' = IF current.raised THEN current
                   ELSE IF previous.raised THEN previous
                   ELSE [raised |-> FALSE, current |-> current.val,
                         previous |-> previous.val]
    /\ pc' = "days"
    /\ UNCHANGED <<period_args, periods, change_vars, bench_vars, engine_vars,
                   thread_vars, rest_vars>>

NextPeriods == GetComparisonPeriods \/ ReadDays

SpecPeriods == InitPeriods /\ [][NextPeriods]_vars

(***************************************************************************)
(* Claims about the comparison periods (checked under SpecPeriods).        *)
(***************************************************************************)
Resolved == pc \in {"get_comparison_periods", "days"}

QuarterNames == <<"Q1", "Q2", "Q3", "Q4">>

\* The number of the quarter the argument names, whatever its case.
QuarterNumber ==
    CHOOSE n \in 1 .. 4 : QuarterNames[n] = Upper(period_args.quarter)

\* The calendar quarter n of a year: Jan-Mar, Apr-Jun, Jul-Sep, Oct-Dec.
IsCalendarQuarter(period, n, year) ==
    /\ period.start_date = DateText(year, 3 * n - 2, 1)
    /\ period.end_date = DateText(year, 3 * n, IF n \in {1, 4} THEN 31 ELSE 30)

\* C17: get_comparison_periods resolves the current period to the calendar
\* quarter of year; with yoy the previous period is the same quarter of
\* year - 1, with qoq the quarter before, Q1 wrapping to Q4 of year - 1; each
\* label is the quarter and the year of its period, and comparison_type is
\* the mode.
C17_PeriodResolution ==
    (Resolved /\ Upper(period_args.quarter) \in {"Q1", "Q2", "Q3", "Q4"}
     /\ period_args.comparison_type \in {"yoy", "qoq"}) =>
        LET n    == QuarterNumber
            year == period_args.year
            yoy  == period_args.comparison_type = "yoy"
            prev_n    == IF yoy THEN n ELSE IF n = 1 THEN 4 ELSE n - 1
            prev_year == IF yoy \/ n = 1 THEN year - 1 ELSE year
        IN  /\ ~ periods.raised
            /\ IsCalendarQuarter(periods.current, n, year)
            /\ IsCalendarQuarter(periods.previous, prev_n, prev_year)
            /\ periods.comparison_type = period_args.comparison_type
            /\ period_args.quarter = QuarterNames[n] =>
                  /\ periods.current.label = Label(QuarterNames[n], year)
                  /\ periods.previous.label = Label(QuarterNames[prev_n], prev_year)

\* Q1 2025 with qoq: the previous period is Q4 2024.
C17_Witness ==
    /\ Resolved
    /\ period_args = [quarter |-> "Q1", year |-> 2025, comparison_type |-> "qoq"]
    /\ ~ periods.raised
    /\ periods.previous.label = Label("Q4", 2024)
    /\ periods.previous.start_date = DateText(2024, 10, 1)

\* previous.end < current.start, as dates
PreviousEndsBeforeCurrent ==
    Ordinal(periods.previous.end_date) < Ordinal(periods.current.start_date)

\* C18 as stated: for every quarter, year and mode the two date ranges do
\* not overlap and current.days = previous.days.  The code returns calendar
\* quarters, whose lengths differ.
C18_EqualLength ==
    (pc = "days" /\ ~ days.raised) =>
        /\ PreviousEndsBeforeCurrent
        /\ days.current = days.previous

\* C18, amended: for every quarter in Q1..Q4, every mode in {yoy, qoq} and
\* every year in 1001..9999, the date ranges do not overlap (previous.end <
\* current.start) and current.days and previous.days are the lengths of
\* calendar quarters, each from 90 to 92 days, so they differ by at most 2.
C18_DisjointQuarters ==
    (pc = "days" /\ period_args.year >= 1001 /\ period_args.year <= 9999) =>
        /\ ~ days.raised
        /\ PreviousEndsBeforeCurrent
        /\ days.current \in 90 .. 92
        /\ days.previous \in 90 .. 92
        /\ Abs(days.current - days.previous) <= 2

\* Q1 2024 against Q1 2023: 91 days and 90 days.
C18_Witness ==
    /\ pc = "days"
    /\ period_args = [quarter |-> "Q1", year |-> 2024, comparison_type |-> "yoy"]
    /\ ~ days.raised
    /\ days.current = 91
    /\ days.previous = 90
    /\ PreviousEndsBeforeCurrent

\* C19: get_comparison_periods fails with ValueError for every mode outside
\* {yoy, qoq} and returns no ComparisonPeriods then; the quarter is checked
\* before the mode, and ValueError is the only error that reaches the caller.
\* Stated as is; the code violates it: a quarter outside Q1..Q4 leaves
\* get_quarter_dates as a KeyError, whatever the mode.
C19_OnlyValueError ==
    Resolved =>
        /\ period_args.comparison_type \notin {"yoy", "qoq"} =>
              (periods.raised /\ periods.exc = "ValueError")
        /\ periods.raised => periods.exc = "ValueError"

(***************************************************************************)
(* Several threads calling analyze.  A thread runs analyze statement by    *)
(* statement: line 65 binds self.insights to a new list, each pass appends *)
(* its insights one at a time to the list self.insights names at that      *)
(* moment, line 76 sorts that list in place and line 78 returns it, the    *)
(* list object itself.  Lists are kept by identity in heap.  A pass reads  *)
(* only its arguments and the settings, so what it appends is computed     *)
(* when it starts.  The threads use engines of their own or one engine.    *)
(***************************************************************************)
Threads == {1, 2}

PassCount == 6

\* the call of pass number k in analyze, lines 68-73
PassOutput(k, a, settings_) ==
    CASE k = 1 -> AnalyzeTraffic(a.ga4_current, a.ga4_previous, settings_)
      [] k = 2 -> AnalyzeEngagement(a.ga4_current, a.ga4_previous, settings_)
      [] k = 3 -> AnalyzeAcquisition(a.ga4_current, a.ga4_previous, settings_)
      [] k = 4 -> AnalyzeContent(a.ga4_current, a.ga4_previous, settings_)
      [] k = 5 -> AnalyzeSearch(a.gsc_current, a.gsc_previous, settings_)
      [] k = 6 -> AnalyzeOpportunities(a.ga4_current, a.gsc_current, settings_)

ListOf_class_level(engines_, self) == engines_[1]

\* the list object that self.insights names: an attribute of the instance,
\* set in __init__ (line 43) and in analyze (line 65)
ListOf(engines_, self) == engines_[self]

\* arguments that make analyze append two insights and sort them the other
\* way round, append one and raise, or append none
BriefArgs ==
    {AnalyzeArgs(a) :
        a \in {[Quiet EXCEPT !.total_clicks = Some(1100), !.mobile = Some(<<51, 61>>)],
               [Quiet EXCEPT !.bounce_rate = Some(66), !.kw_shape = "dict"],
               Absent}}

\* the arguments of the two calls: any on engines of their own, brief ones
\* on one engine
ThreadArgs(other) == IF other = 1 THEN BriefArgs ELSE Reruns \cup BriefArgs

\* two engines constructed, each with its own empty list, and two threads
\* about to call analyze, on an engine each or both on the first
InitThreads ==
    /\ pc = "threads"
    /\ settings = Settings
    /\ heap = <<<<>>, <<>>>>
    /\ engines = <<1, 2>>
    /\ \E other \in {1, 2} : \E first, second \in ThreadArgs(other) :
          threads = [t \in Threads |->
                        [self    |-> IF t = 1 THEN 1 ELSE other,
                         args    |-> IF t = 1 THEN first ELSE second,
                         at      |-> "call",
                         pass    |-> 0,
                         pending |-> <<>>,
                         result  |-> NoResult]]
    /\ args = [op |-> "none"]
    /\ insights = <<>>
    /\ earlier = 0
    /\ returned = NoResult
    /\ executive_summary = NoResult
    /\ key_recommendations = NoResult
    /\ as_dict = NoResult
    /\ ChangeIdle
    /\ BenchIdle
    /\ DatesIdle
    /\ RestIdle

OthersUnchanged ==
    UNCHANGED <<pc, change_vars, bench_vars, engine_vars, date_vars, rest_vars>>

\* entering pass k: what it will append, and whether it raises after that
EnterPass(t, k) ==
    [threads[t] EXCEPT !.at = "pass", !.pass = k,
                       !.pending = PassOutput(k, threads[t].args, settings).out]

\* line 65: self.insights = [], a new list object
BeginAnalyze(t) ==
    /\ threads[t].at = "call"
    /\ heap' = Append(heap, ResetInsights(heap[ListOf(engines, threads[t].self)]))
    /\ engines' = [engines EXCEPT ![threads[t].self] = Len(heap) + 1]
    /\ threads' = [threads EXCEPT ![t] = EnterPass(t, 1)]
    /\ OthersUnchanged

\* self.insights.append(Insight(...)) in a pass
AppendInsight(t) ==
    /\ threads[t].at = "pass"
    /\ threads[t].pending # <<>>
    /\ heap' = [heap EXCEPT ![ListOf(engines, threads[t].self)] =
                                Append(@, Head(threads[t].pending))]
    /\ threads' = [threads EXCEPT ![t].pending = Tail(@)]
    /\ UNCHANGED engines
    /\ OthersUnchanged

\* a pass returns and the next one is called, or it raises and analyze ends
EndPass(t) ==
    /\ threads[t].at = "pass"
    /\ threads[t].pending = <<>>
    /\ LET ran == PassOutput(threads[t].pass, threads[t].args, settings)
       IN  threads' =
               [threads EXCEPT ![t] =
                   IF ran.raised
                   THEN [@ EXCEPT !.at = "raised", !.result = Raise(ran.exc)]
                   ELSE IF threads[t].pass < PassCount
                        THEN EnterPass(t, threads[t].pass + 1)
                        ELSE [@ EXCEPT !.at = "sort"]]
    /\ UNCHANGED <<heap, engines>>
    /\ OthersUnchanged

\* line 76: self.insights.sort(key=lambda x: x.priority)
SortInsights(t) ==
    /\ threads[t].at = "sort"
    /\ heap' = [heap EXCEPT ![ListOf(engines, threads[t].self)] = SortByPriority(@)]
    /\ threads' = [threads EXCEPT ![t].at = "return"]
    /\ UNCHANGED engines
    /\ OthersUnchanged

\* line 78: return self.insights, the list object
ReturnInsights(t) ==
    /\ threads[t].at = "return"
    /\ threads' = [threads EXCEPT ![t].at = "done",
                                  ![t].result = [raised |-> FALSE,
                                                 list |-> ListOf(engines, threads[t].self)]]
    /\ UNCHANGED <<heap, engines>>
    /\ OthersUnchanged

NextThreads ==
    \E t \in Threads :
        \/ BeginAnalyze(t)
        \/ AppendInsight(t)
        \/ EndPass(t)
        \/ SortInsights(t)
        \/ ReturnInsights(t)

SpecThreads == InitThreads /\ [][NextThreads]_vars

(***************************************************************************)
(* Claims about concurrent calls (checked under SpecThreads).              *)
(***************************************************************************)
SeparateEngines == threads[1].self # threads[2].self

\* What the call of thread t returns when it runs alone on a fresh engine.
Alone(t) ==
    analyze(<<>>, threads[t].args.ga4_current, threads[t].args.ga4_previous,
            threads[t].args.gsc_current, threads[t].args.gsc_previous, Settings)

\* C16: under every interleaving of two analyze calls on two different
\* engines, each call returns exactly the list it returns when run alone
\* (or raises as it does alone), and the shared settings object with its
\* benchmark table is not modified.
C16_SeparateEngines ==
    (pc = "threads" /\ SeparateEngines) =>
        /\ settings = Settings
        /\ \A t \in Threads :
              /\ threads[t].at = "done" =>
                    /\ ~ Alone(t).raised
                    /\ heap[threads[t].result.list] = Alone(t).out
              /\ threads[t].at = "raised" =>
                    /\ Alone(t).raised
                    /\ threads[t].result = Raise(Alone(t).exc)

\* The call of thread 1 began after the call of thread 2 (its list is the
\* newer object) and has returned its list while thread 2, on its own
\* engine, is still in its passes with insights appended.
C16_Witness ==
    /\ pc = "threads"
    /\ SeparateEngines
    /\ threads[1].at = "done"
    /\ threads[2].at = "pass"
    /\ threads[2].pass >= 3
    /\ threads[1].result.list > engines[threads[2].self]
    /\ heap[threads[1].result.list] # <<>>
    /\ heap[threads[1].result.list] = Alone(1).out
    /\ heap[engines[threads[2].self]] # <<>>

(***************************************************************************)
(* Claims about the mobile experience insight (checked under Spec).        *)
(***************************************************************************)
DeviceRows ==
    LET device_data == Section(args.ga4_current, "device_breakdown", DataFrame(<<>>))
    IN  IF device_data.type = "DataFrame" THEN device_data.rows ELSE <<>>

\* device_breakdown has a mobile row and a desktop row, the mobile share is
\* above 50 and the mobile bounce rate more than 10 above the desktop one.
MobileLagsDesktop ==
    \E m, d \in DOMAIN DeviceRows :
        /\ IsFirst(DeviceRows, m, LAMBDA row : Lower(row.deviceCategory) = "mobile")
        /\ IsFirst(DeviceRows, d, LAMBDA row : Lower(row.deviceCategory) = "desktop")
        /\ DeviceRows[m].user_share > 50
        /\ DeviceRows[m].bounceRate > DeviceRows[d].bounceRate + 10

\* The insight is emitted as the claim describes it, exactly when the
\* condition holds, and stands first in a returned list.
MobileInsightIffLagging ==
    LET found == About(insights, "mobile_bounce_rate")
    IN  /\ (found # <<>>) <=> MobileLagsDesktop
        /\ Len(found) <= 1
        /\ \A i \in DOMAIN found :
              /\ found[i].category = "opportunity"
              /\ found[i].type = "negative"
              /\ found[i].priority = 1
        /\ (found # <<>> /\ ~ returned.raised) =>
              returned.value[1].metric_name = "mobile_bounce_rate"

\* C20: analyze emits the mobile experience insight (category opportunity,
\* type negative, priority 1) iff device_breakdown has a mobile row and a
\* desktop row with mobile user_share > 50 and mobile bounce rate > desktop
\* bounce rate + 10, both strict; when emitted it is the first element of
\* the returned list.  Stated as is; the code violates it: a pass that
\* raises on the {} of a failed fetch ends the call before the mobile check.
C20_MobileExperience == pc # "start" => MobileInsightIffLagging

\* On the calls that return, the insight is emitted exactly as stated.
MobileExperienceOnReturn == Analyzed => MobileInsightIffLagging

(***************************************************************************)
(* trends.py: TrendAnalyzer                                                *)
(*                                                                         *)
(* A series is the value column of the DataFrame, as a sequence of         *)
(* integers; the row index stands for the date column.  numpy's sums,      *)
(* means and the least-squares fit are computed exactly, on fractions in   *)
(* lowest terms.  np.std is a square root: the model keeps its square, the *)
(* population variance, and compares squares wherever the code compares a  *)
(* standard deviation.                                                     *)
(***************************************************************************)
RECURSIVE Gcd(_, _)
Gcd(a, b) == IF b = 0 THEN a ELSE Gcd(b, a % b)

Reduced(n, d) == LET g == Gcd(Abs(n), d) IN Frac(n \div g, d \div g)

Whole(k) == Frac(k, 1)

FracAdd(a, b) ==
    LET l == (a.d \div Gcd(a.d, b.d)) * b.d
    IN  Reduced(a.n * (l \div a.d) + b.n * (l \div b.d), l)

FracNeg(a) == Frac(-a.n, a.d)

FracSub(a, b) == FracAdd(a, FracNeg(b))

FracMul(a, b) ==
    LET g1 == Gcd(Abs(a.n), b.d)
        g2 == Gcd(Abs(b.n), a.d)
    IN  Frac((a.n \div g1) * (b.n \div g2), (a.d \div g2) * (b.d \div g1))

\* a / b for b # 0
FracDiv(a, b) == FracMul(a, IF b.n > 0 THEN Frac(b.d, b.n) ELSE Frac(-b.d, -b.n))

FracLt(a, b) == a.n * b.d < b.n * a.d

FracAbs(a) == Frac(Abs(a.n), a.d)

RECURSIVE SumOver(_, _, _)
\* np.sum over rows lo .. hi; like numpy, the sum is taken pairwise
SumOver(values, lo, hi) ==
    IF lo > hi THEN 0
    ELSE IF lo = hi THEN values[lo]
    ELSE SumOver(values, lo, (lo + hi) \div 2) + SumOver(values, (lo + hi) \div 2 + 1, hi)

RECURSIVE CrossOver(_, _, _)
\* np.sum(x * values) over rows lo .. hi, where x = np.arange(n): x[i] = i - 1
CrossOver(values, lo, hi) ==
    IF lo > hi THEN 0
    ELSE IF lo = hi THEN (lo - 1) * values[lo]
    ELSE CrossOver(values, lo, (lo + hi) \div 2) + CrossOver(values, (lo + hi) \div 2 + 1, hi)

RECURSIVE SquaresOver(_, _, _, _, _, _)
\* np.sum((a * values + b * x + c) ** 2) over rows lo .. hi
SquaresOver(values, a, b, c, lo, hi) ==
    IF lo > hi THEN 0
    ELSE IF lo = hi
         THEN (a * values[lo] + b * (lo - 1) + c) * (a * values[lo] + b * (lo - 1) + c)
    ELSE SquaresOver(values, a, b, c, lo, (lo + hi) \div 2)
             + SquaresOver(values, a, b, c, (lo + hi) \div 2 + 1, hi)

SumTo(values, n) == SumOver(values, 1, n)

CrossTo(values, n) == CrossOver(values, 1, n)

SquaresTo(values, a, b, c, n) == SquaresOver(values, a, b, c, 1, n)

\* np.mean(values), for a series that is not empty
NpMean(values) == Reduced(SumTo(values, Len(values)), Len(values))

\* np.sum((values - np.mean(values)) ** 2): each difference is taken times n,
\* which keeps it an integer, and the sum is divided by n ** 2
SquaredDeviations(values) ==
    LET n == Len(values)
    IN  Reduced(SquaresTo(values, n, 0, -SumTo(values, n), n), n * n)

\* np.std(values) ** 2: numpy's default is the population variance (ddof = 0)
NpVariance(values) == FracDiv(SquaredDeviations(values), Whole(Len(values)))

\* np.polyfit(np.arange(len(values)), values, 1): the least-squares line
polyfit(values) ==
    LET n     == Len(values)
        sx    == SumTo([i \in 1 .. n |-> i - 1], n)
        sxx   == SquaresTo([i \in 1 .. n |-> i - 1], 1, 0, 0, n)
        sy    == SumTo(values, n)
        sxy   == CrossTo(values, n)
        slope == Reduced(n * sxy - sx * sy, n * sxx - sx * sx)
    IN  [slope     |-> slope,
         intercept |-> Reduced(sy * slope.d - slope.n * sx, n * slope.d)]

TrendResult(direction, strength, slope, description, significant) ==
    [direction   |-> direction,
     strength    |-> strength,
     slope       |-> slope,
     description |-> description,
     significant |-> significant]

\* ss_res, ss_tot and r_squared.  y_pred = slope * x + intercept; each residual
\* values - y_pred is taken times the common denominator of slope and intercept.
RSquared(values, fit) ==
    LET n      == Len(values)
        common == (fit.slope.d \div Gcd(fit.slope.d, fit.intercept.d)) * fit.intercept.d
        ss_res == Reduced(SquaresTo(values, common,
                                    -((common \div fit.slope.d) * fit.slope.n),
                                    -((common \div fit.intercept.d) * fit.intercept.n), n),
                          common * common)
        ss_tot == SquaredDeviations(values)
    IN  IF ss_tot.n > 0 THEN FracSub(Whole(1), FracDiv(ss_res, ss_tot)) ELSE Whole(0)

RelativeSlope_fraction(slope, mean_value) ==
    IF mean_value.n # 0 THEN FracDiv(slope, mean_value) ELSE Whole(0)

\* (slope / mean_value * 100) if mean_value != 0 else 0
RelativeSlope(slope, mean_value) ==
    IF mean_value.n # 0
    THEN FracMul(FracDiv(slope, mean_value), Whole(100))
    ELSE Whole(0)

\* cv = np.std(values) / mean_value if mean_value != 0 else 0;  cv > 0.5.
\* The standard deviation is not negative, so the quotient exceeds 1/2 only
\* over a positive mean, and there exactly when 4 * variance > mean ** 2.
Volatile(variance, mean_value) ==
    /\ mean_value.n > 0
    /\ FracLt(FracMul(mean_value, mean_value), FracMul(Whole(4), variance))

\* lines 100-110: the slope chooses a direction, then volatility overrides it
TrendDirection(slope, relative_slope, variance, mean_value) ==
    IF Volatile(variance, mean_value) THEN "volatile"
    ELSE IF FracAbsLt(relative_slope, 1, 1) THEN "stable"
    ELSE IF slope.n > 0 THEN "increasing"
    ELSE "decreasing"

\* abs(relative_slope) > 5 and r_squared > 0.3
Significant(relative_slope, r_squared) ==
    /\ ~ FracAbsLt(relative_slope, 5, 1)
    /\ ~ FracEq(FracAbs(relative_slope), Whole(5))
    /\ FracLt(Frac(3, 10), r_squared)

\* The description is kept as the sentence chosen; the number formatted into
\* it is left out.
analyze_trend(values) ==
    IF Len(values) < 3
    THEN TrendResult("stable", Whole(0), Whole(0),
                     "Insufficient data for trend analysis", FALSE)
    ELSE LET fit            == polyfit(values)
             r_squared      == RSquared(values, fit)
             mean_value     == NpMean(values)
             relative_slope == RelativeSlope(fit.slope, mean_value)
             direction      == TrendDirection(fit.slope, relative_slope,
                                              NpVariance(values), mean_value)
             description    ==
                 IF direction = "stable" THEN "Metric remained relatively stable around"
                 ELSE IF direction = "volatile" THEN "High volatility detected"
                 ELSE IF direction = "increasing" THEN "Metric increased by approximately"
                 ELSE "Metric decreased by approximately"
         IN  TrendResult(direction, r_squared, relative_slope, description,
                         Significant(relative_slope, r_squared))

\* deviation > threshold, where threshold = sensitivity * std_val
ExceedsThreshold(deviation, sensitivity, variance) ==
    \/ sensitivity.n < 0
    \/ FracLt(FracMul(FracMul(sensitivity, sensitivity), variance),
              FracMul(deviation, deviation))

\* min_deviation or (self.sensitivity * 50): None and 0 both select the default
MinDeviation(sensitivity, min_deviation) ==
    IF min_deviation = None \/ min_deviation = Some(0)
    THEN FracMul(sensitivity, Whole(50))
    ELSE Whole(min_deviation[1])

\* (value - mean_val) / mean_val * 100 if mean_val != 0 else 0
DeviationPct(value, mean_val) ==
    IF mean_val.n # 0
    THEN FracMul(FracDiv(FracSub(Whole(value), mean_val), mean_val), Whole(100))
    ELSE Whole(0)

\* expected_range = (mean_val - std_val, mean_val + std_val), kept as its centre
\* and the square of its half width
AnomalyResult(date, value, mean_val, variance, deviation_pct) ==
    [date           |-> date,
     value          |-> value,
     expected_range |-> [centre |-> mean_val, half_width_squared |-> variance],
     deviation_pct  |-> deviation_pct,
     type           |-> IF FracLt(mean_val, Whole(value)) THEN "spike" ELSE "drop"]

RECURSIVE AnomaliesFrom(_, _, _, _, _)
\* the loop over data.iterrows(), from row idx on
AnomaliesFrom(sensitivity, values, min_deviation, idx, found) ==
    IF idx > Len(values) THEN found
    ELSE LET mean_val      == NpMean(values)
             variance      == NpVariance(values)
             value         == values[idx]
             deviation     == FracAbs(FracSub(Whole(value), mean_val))
             deviation_pct == DeviationPct(value, mean_val)
             flagged       ==
                 /\ ExceedsThreshold(deviation, sensitivity, variance)
                 /\ ~ FracLt(FracAbs(deviation_pct), MinDeviation(sensitivity, min_deviation))
         IN  AnomaliesFrom(sensitivity, values, min_deviation, idx + 1,
                 IF flagged
                 THEN Append(found, AnomalyResult(idx, value, mean_val, variance,
                                                  deviation_pct))
                 ELSE found)

detect_anomalies(sensitivity, values, min_deviation) ==
    IF Len(values) < 5 THEN <<>>
    ELSE IF NpVariance(values).n = 0 THEN <<>>
    ELSE AnomaliesFrom(sensitivity, values, min_deviation, 1, <<>>)

(***************************************************************************)
(* Inputs of the trend analyzer: arithmetic series of every length up to   *)
(* MaxPoints, rising, flat and falling, around small, large, zero and      *)
(* negative means, and series with one or two outliers.                    *)
(***************************************************************************)
MaxPoints == 8

RECURSIVE Arithmetic(_, _, _)
Arithmetic(first, step, n) ==
    IF n = 0 THEN <<>> ELSE Append(Arithmetic(first, step, n - 1), first + (n - 1) * step)

Starts == {-30, 0, 1, 10, 100, 1000}

Steps == {-10, 0, 1, 10, 100}

Outliers ==
    {<<10, 10, 10, 10, 100>>, <<10, 10, 10, 10, 10, 100>>, <<100, 100, 100, 100, 100, 130>>,
     <<100, 100, 100, 10, 100, 100, 100>>, <<-5, -5, -5, -5, -5, 30>>, <<1, 2, 4>>,
     <<0, 50, 0, 50, 0, 50, 0, 400>>, <<40, 30, 35, 20, 10>>}

Series ==
    {Arithmetic(first, step, n) : first \in Starts, step \in Steps, n \in 0 .. MaxPoints}
        \cup {o \in Outliers : Len(o) <= MaxPoints}

Sensitivities == {Frac(2, 1), Frac(3, 2), Frac(1, 1)}

MinDeviations == {None, Some(0), Some(20), Some(300)}

CoreIdle == ChangeIdle /\ BenchIdle /\ EngineIdle /\ DatesIdle /\ ThreadsIdle

core_vars == <<change_vars, bench_vars, engine_vars, date_vars, thread_vars>>

InitTrend ==
    /\ pc = "start"
    /\ \E sensitivity \in Sensitivities, values \in Series, min_deviation \in MinDeviations :
          trend_args = [sensitivity   |-> sensitivity,
                        values        |-> values,
                        min_deviation |-> min_deviation]
    /\ trend = NoResult
    /\ anomalies = NoResult
    /\ CoreIdle
    /\ ReportIdle
    /\ CacheIdle

AnalyzeTrend ==
    /\ trend = NoResult
    /\ trend' = analyze_trend(trend_args.values)
    /\ pc' = "analyze_trend"
    /\ UNCHANGED <<trend_args, anomalies, core_vars, report_vars, cache_vars>>

DetectAnomalies ==
    /\ anomalies = NoResult
    /\ anomalies' = Ok(detect_anomalies(trend_args.sensitivity, trend_args.values,
                                        trend_args.min_deviation))
    /\ pc' = "detect_anomalies"
    /\ UNCHANGED <<trend_args, trend, core_vars, report_vars, cache_vars>>

NextTrend == AnalyzeTrend \/ DetectAnomalies

SpecTrend == InitTrend /\ [][NextTrend]_vars

(***************************************************************************)
(* report_generator.py: ReportGenerator                                    *)
(*                                                                         *)
(* The remote services are the world: for every client constructor and     *)
(* every fetch it says whether the call raises, and what it returns if it  *)
(* does not.  An error message is kept as the name it is made from and     *)
(* what failed.  A section no pass of the engine reads is served as an     *)
(* empty value of its type.                                                *)
(***************************************************************************)
ErrorMessage(name, what) == [name |-> name, what |-> what]

\* _safe_init: the client, or None and one more entry in self.errors
safe_init(wanted, raises, name, errors) ==
    IF ~ wanted THEN [value |-> None, errors |-> errors]
    ELSE IF raises
         THEN [value  |-> None,
               errors |-> Append(errors, ErrorMessage(name, "initialization failed"))]
         ELSE [value |-> Some(name), errors |-> errors]

\* __init__: the clients in the order they are made, then the analyzers
ReportGenerator(config, init_raises) ==
    LET ga4        == safe_init(TRUE, "GA4 Client" \in init_raises, "GA4 Client", <<>>)
        gsc        == safe_init(TRUE, "Search Console Client" \in init_raises,
                                "Search Console Client", ga4.errors)
        pagespeed  == safe_init("pagespeed" \in config, "PageSpeed Client" \in init_raises,
                                "PageSpeed Client", gsc.errors)
        hotjar     == safe_init("hotjar" \in config, "Hotjar Client" \in init_raises,
                                "Hotjar Client", pagespeed.errors)
        google_ads == safe_init("google_ads" \in config, "Google Ads Client" \in init_raises,
                                "Google Ads Client", hotjar.errors)
    IN  [settings        |-> Settings,
         errors          |-> google_ads.errors,
         ga4             |-> ga4.value,
         gsc             |-> gsc.value,
         pagespeed       |-> pagespeed.value,
         hotjar          |-> hotjar.value,
         google_ads      |-> google_ads.value,
         insights_engine |-> [insights |-> <<>>]]

\* _safe_fetch: what the fetch returns, or {} and one more entry in self.errors
\* (default is None or {}, and None is replaced by {})
safe_fetch(raises, value, name, errors) ==
    IF raises
    THEN [value |-> Dict(<<>>), errors |-> Append(errors, ErrorMessage(name, "failed"))]
    ELSE [value |-> value, errors |-> errors]

Fetch(key, name) == [key |-> key, name |-> name]

\* the fetches of _collect_ga4_data, in the order of the dict literal
Ga4Fetches ==
    <<Fetch("traffic_overview", "GA4 traffic overview"),
      Fetch("traffic_by_month", "GA4 monthly traffic"),
      Fetch("traffic_by_channel", "GA4 channel breakdown"),
      Fetch("traffic_by_source", "GA4 source/medium"),
      Fetch("top_pages", "GA4 top pages"),
      Fetch("landing_pages", "GA4 landing pages"),
      Fetch("homepage_engagement", "GA4 homepage engagement"),
      Fetch("device_breakdown", "GA4 device breakdown"),
      Fetch("geography", "GA4 geography"),
      Fetch("new_vs_returning", "GA4 new vs returning"),
      Fetch("paid_search", "GA4 paid search"),
      Fetch("campaigns", "GA4 campaigns"),
      Fetch("top_events", "GA4 events")>>

Ga4PreviousFetches ==
    <<Fetch("traffic_overview", "GA4 previous traffic overview"),
      Fetch("traffic_by_month", "GA4 previous monthly traffic")>>

\* the fetches of _collect_gsc_data
GscFetches ==
    <<Fetch("overview", "GSC overview"),
      Fetch("top_keywords_clicks", "GSC top keywords (clicks)"),
      Fetch("top_keywords_impressions", "GSC top keywords (impressions)"),
      Fetch("top_keywords_ctr", "GSC top keywords (CTR)"),
      Fetch("keyword_opportunities", "GSC keyword opportunities"),
      Fetch("branded_vs_nonbranded", "GSC branded vs non-branded"),
      Fetch("top_pages", "GSC top pages"),
      Fetch("daily_performance", "GSC daily performance"),
      Fetch("device_breakdown", "GSC device breakdown"),
      Fetch("country_breakdown", "GSC country breakdown")>>

GscPreviousFetches ==
    <<Fetch("overview", "GSC previous overview"),
      Fetch("top_keywords_clicks", "GSC previous keywords")>>

\* the sections whose client method returns a dict; the others return a DataFrame
DictSections ==
    {"traffic_overview", "homepage_engagement", "new_vs_returning", "paid_search",
     "overview", "branded_vs_nonbranded"}

\* what a client method returns when it does not raise
Served(served, key) ==
    IF key \in DOMAIN served THEN served[key]
    ELSE IF key \in DictSections THEN Dict(<<>>) ELSE DataFrame(<<>>)

RECURSIVE FetchAll(_, _, _, _, _)
\* the entries of a dict literal, each a _safe_fetch, evaluated in order
FetchAll(fetches, served, fetch_raises, data, errors) ==
    IF fetches = <<>> THEN [data |-> data, errors |-> errors]
    ELSE LET got == safe_fetch(fetches[1].name \in fetch_raises,
                               Served(served, fetches[1].key), fetches[1].name, errors)
         IN  FetchAll(Tail(fetches), served, fetch_raises,
                      [k \in DOMAIN data \cup {fetches[1].key} |->
                          IF k = fetches[1].key THEN got.value ELSE data[k]],
                      got.errors)

\* _collect_ga4_data and _collect_gsc_data: [data, errors]
Collect(client, missing, fetches, previous_fetches, served, served_previous, fetch_raises, errors) ==
    IF client = None
    THEN [data |-> [error |-> missing], errors |-> errors]
    ELSE LET current  == FetchAll(fetches, served, fetch_raises, <<>>, errors)
             previous == FetchAll(previous_fetches, served_previous, fetch_raises, <<>>,
                                  current.errors)
         IN  [data   |-> [k \in DOMAIN current.data \cup {"_previous"} |->
                             IF k = "_previous" THEN previous.data ELSE current.data[k]],
              errors |-> previous.errors]

Unavailable(reason) == [available |-> FALSE, reason |-> reason]

\* PageSpeedClient.get_performance_overview, for the mobile and desktop scores
\* analyze_url gave (None when it gave nothing)
PerformanceOverview(mobile, desktop) ==
    [available |-> mobile # None \/ desktop # None,
     mobile    |-> IF mobile # None THEN Some([score |-> mobile[1]]) ELSE None,
     desktop   |-> IF desktop # None THEN Some([score |-> desktop[1]]) ELSE None,
     summary   |-> [k \in (IF mobile # None THEN {"mobile_score"} ELSE {})
                          \cup (IF desktop # None THEN {"desktop_score"} ELSE {}) |->
                       IF k = "mobile_score" THEN mobile[1] ELSE desktop[1]]]

\* generate, lines 252-256, and _collect_pagespeed_data: [data, errors]
CollectPagespeed(client, answer, errors) ==
    IF client = None
    THEN [data |-> Unavailable("PageSpeed not enabled"), errors |-> errors]
    ELSE IF answer.raises
         THEN [data   |-> Unavailable("exception"),
               errors |-> Append(errors, ErrorMessage("PageSpeed fetch", "failed"))]
         ELSE LET data == PerformanceOverview(answer.mobile, answer.desktop)
              IN  [data   |-> IF data.available THEN data
                              ELSE [k \in DOMAIN data \cup {"reason"} |->
                                       IF k = "reason"
                                       THEN "PageSpeed analysis returned no data"
                                       ELSE data[k]],
                   errors |-> errors]

\* generate, lines 258-262, and _collect_hotjar_data; a client that config.has_hotjar
\* lets be made is configured, and get_all_insights then answers available
CollectHotjar(client, answer, errors) ==
    IF client = None
    THEN [data |-> Unavailable("Hotjar not configured"), errors |-> errors]
    ELSE IF answer.raises
         THEN [data   |-> Unavailable("exception"),
               errors |-> Append(errors, ErrorMessage("Hotjar fetch", "failed"))]
         ELSE [data   |-> [available |-> TRUE,
                           feedback  |-> [nps_estimate |-> answer.nps]],
               errors |-> errors]

\* generate, lines 264-268, and _collect_google_ads_data
CollectGoogleAds(client, answer, errors) ==
    IF client = None
    THEN [data |-> Unavailable("Google Ads not configured"), errors |-> errors]
    ELSE IF answer.raises
         THEN [data   |-> Unavailable("exception"),
               errors |-> Append(errors, ErrorMessage("Google Ads fetch", "failed"))]
         ELSE [data |-> [available |-> TRUE], errors |-> errors]

\* the dict a .get('traffic_overview', {}) or .get('_previous', {}) finds
DictAt(data, key) == IF key \in DOMAIN data THEN data[key] ELSE Dict(<<>>)

\* one table of _calculate_comparisons: an entry per key of the current dict
ComparisonTable(curr, prev, significant_threshold, anomaly_threshold, inverse_keys) ==
    [key \in DOMAIN curr |->
        LET curr_val == curr[key]
            prev_val == Get(prev, key, 0)
            chg      == calculate_change(curr_val, prev_val, significant_threshold,
                                         anomaly_threshold, key \in inverse_keys)
        IN  [current  |-> curr_val,
             previous |-> prev_val,
             change   |-> IF chg.raised THEN [formatted |-> "N/A"]
                          ELSE [pct       |-> chg.change_pct,
                                direction |-> chg.direction]]]

\* _calculate_comparisons
calculate_comparisons(ga4, gsc, settings_) ==
    [traffic_overview |->
         ComparisonTable(DictAt(ga4, "traffic_overview").d,
                         IF "_previous" \in DOMAIN ga4
                         THEN DictAt(ga4["_previous"], "traffic_overview").d ELSE <<>>,
                         settings_.significant_change_threshold,
                         settings_.anomaly_threshold, {"bounce_rate"}),
     gsc |->
         [overview |->
              ComparisonTable(DictAt(gsc, "overview").d,
                              IF "_previous" \in DOMAIN gsc
                              THEN DictAt(gsc["_previous"], "overview").d ELSE <<>>,
                              10, 25, {"avg_position"})]]

\* row.get('sessionDefaultChannelGroup', '').lower().replace(' ', '_'), and the
\* name f'{channel}_traffic_share'
ShareMetric(channel) ==
    CASE Lower(channel) = "organic search" -> "organic_search_traffic_share"
      [] Lower(channel) = "direct"         -> "direct_traffic_share"
      [] Lower(channel) = "referral"       -> "referral_traffic_share"
      [] OTHER                             -> "other_traffic_share"

\* _run_benchmarks: the metrics handed to analyze_all, in insertion order.  The
\* benchmark table holds tenths, so a metric is handed over in tenths.
MetricsToBenchmark(ga4, pagespeed) ==
    LET traffic  == DictAt(ga4, "traffic_overview").d
        scores   ==
            IF pagespeed.available
            THEN (IF pagespeed.mobile # None
                  THEN <<<<"mobile_performance_score", 10 * pagespeed.mobile[1].score>>>>
                  ELSE <<>>)
                 \o (IF pagespeed.desktop # None
                     THEN <<<<"desktop_performance_score", 10 * pagespeed.desktop[1].score>>>>
                     ELSE <<>>)
            ELSE <<>>
        \* channels is not None, hasattr(channels, 'empty') and not channels.empty
        shares   ==
            IF "traffic_by_channel" \in DOMAIN ga4 /\ ga4["traffic_by_channel"].type = "DataFrame"
            THEN [i \in DOMAIN ga4["traffic_by_channel"].rows |->
                     <<ShareMetric(ga4["traffic_by_channel"].rows[i].sessionDefaultChannelGroup),
                       10 * ga4["traffic_by_channel"].rows[i].session_share>>]
            ELSE <<>>
    IN  <<<<"bounce_rate", 10 * Get(traffic, "bounce_rate", 0)>>,
          <<"avg_session_duration", 10 * Get(traffic, "avg_session_duration", 0)>>,
          <<"pages_per_session", 10 * Get(traffic, "pages_per_session", 0)>>,
          <<"engagement_rate", 10 * Get(traffic, "engagement_rate", 0)>>>>
            \o scores \o shares

\* _run_benchmarks: in these inputs analyze_all and get_benchmark_summary do
\* not raise
run_benchmarks(ga4, pagespeed) ==
    LET comparisons_ == analyze_all(DEFAULT_BENCHMARKS, MetricsToBenchmark(ga4, pagespeed))
    IN  [comparisons |->
             [i \in DOMAIN comparisons_ |->
                 <<comparisons_[i][1],
                   [value          |-> comparisons_[i][2].current_value,
                    benchmark      |-> comparisons_[i][2].benchmark_value,
                    performance    |-> comparisons_[i][2].performance,
                    interpretation |-> comparisons_[i][2].interpretation]>>],
         summary |-> get_benchmark_summary(DEFAULT_BENCHMARKS, comparisons_)]

AddedInsight(category, type, priority, headline, recommendation) ==
    [category       |-> category,
     type           |-> type,
     priority       |-> priority,
     headline       |-> headline,
     recommendation |-> recommendation]

\* insights_dict['insights'].append(...)
add_insights(records, added) ==
    IF added = None THEN records ELSE Append(records, added[1])

\* _add_pagespeed_insights: the record it appends, if any
PagespeedInsight(pagespeed_data) ==
    LET mobile_score == Get(Get(pagespeed_data, "summary", <<>>), "mobile_score", 0)
    IN  IF mobile_score < 50
        THEN Some(AddedInsight("performance", "negative", 2,
                               "Mobile performance score is poor",
                               Some("Prioritize mobile performance")))
        ELSE IF mobile_score < 90
        THEN Some(AddedInsight("performance", "opportunity", 3,
                               "Mobile performance has room for improvement",
                               Some("Review PageSpeed recommendations")))
        ELSE None

\* _add_hotjar_insights: the record it appends, if any
HotjarInsight(hotjar_data) ==
    LET nps == Get(Get(hotjar_data, "feedback", <<>>), "nps_estimate", 0)
    IN  IF nps > 50
        THEN Some(AddedInsight("engagement", "positive", 3,
                               "User sentiment is positive", None))
        ELSE IF nps < 0
        THEN Some(AddedInsight("engagement", "negative", 2,
                               "User sentiment needs attention",
                               Some("Review recent user feedback")))
        ELSE None

InsightsError ==
    [executive_summary   |-> "Insights generation encountered an error.",
     insights            |-> <<>>,
     key_recommendations |-> <<>>]

\* _generate_insights, once analyze has run: [insights, errors, engine], engine
\* being the list the engine is left with
InsightsFrom(ran, pagespeed, hotjar, errors) ==
    IF ran.raised
    THEN [insights |-> InsightsError,
          errors   |-> Append(errors, ErrorMessage("Insights generation", "failed")),
          engine   |-> ran.out]
    ELSE [insights |->
              [to_dict(ran.out) EXCEPT
                  !.insights =
                      add_insights(
                          add_insights(@, IF pagespeed.available
                                          THEN PagespeedInsight(pagespeed) ELSE None),
                          IF hotjar.available THEN HotjarInsight(hotjar) ELSE None)],
          errors   |-> errors,
          engine   |-> ran.out]

\* _generate_insights
generate_insights(engine_insights, ga4, gsc, pagespeed, hotjar, settings_, errors) ==
    InsightsFrom(analyze(engine_insights,
                         ga4, IF "_previous" \in DOMAIN ga4 THEN ga4["_previous"] ELSE <<>>,
                         gsc, IF "_previous" \in DOMAIN gsc THEN gsc["_previous"] ELSE <<>>,
                         settings_),
                 pagespeed, hotjar, errors)

\* generate, line 213: self.errors = []
ResetErrors(errors) == <<>>

\* generate, lines 270-290: the report is put together and returned
ReportOf(data, metadata, settings_, insights_) ==
    [raised |-> FALSE,
     report |->
         [metadata   |-> metadata,
          ga4        |-> data.ga4,
          gsc        |-> data.gsc,
          pagespeed  |-> data.pagespeed,
          hotjar     |-> data.hotjar,
          google_ads |-> data.google_ads,
          comparison |-> calculate_comparisons(data.ga4, data.gsc, settings_),
          benchmarks |-> run_benchmarks(data.ga4, data.pagespeed),
          insights   |-> insights_.insights,
          errors     |-> insights_.errors],
     errors |-> insights_.errors,
     engine |-> insights_.engine]

\* generate, lines 270-280: comparisons, benchmarks and insights of the data
AnalyzedReport(self, metadata, data) ==
    ReportOf(data, metadata, self.settings,
             generate_insights(self.insights_engine.insights, data.ga4, data.gsc,
                               data.pagespeed, data.hotjar, self.settings, data.errors))

\* generate, lines 264-268: everything is collected
WithGoogleAds(ga4, gsc, pagespeed, hotjar, google_ads) ==
    [ga4 |-> ga4.data, gsc |-> gsc.data, pagespeed |-> pagespeed.data,
     hotjar |-> hotjar.data, google_ads |-> google_ads.data, errors |-> google_ads.errors]

\* generate, lines 264-268
WithHotjar(self, answers, ga4, gsc, pagespeed, hotjar) ==
    WithGoogleAds(ga4, gsc, pagespeed, hotjar,
                  CollectGoogleAds(self.google_ads, answers.google_ads, hotjar.errors))

\* generate, lines 258-262
WithPagespeed(self, answers, ga4, gsc, pagespeed) ==
    WithHotjar(self, answers, ga4, gsc, pagespeed,
               CollectHotjar(self.hotjar, answers.hotjar, pagespeed.errors))

\* generate, lines 252-256
WithGsc(self, answers, ga4, gsc) ==
    WithPagespeed(self, answers, ga4, gsc,
                  CollectPagespeed(self.pagespeed, answers.pagespeed, gsc.errors))

\* generate, lines 248-249
WithGa4(self, answers, ga4) ==
    WithGsc(self, answers, ga4,
            Collect(self.gsc, "Search Console client not initialized", GscFetches,
                    GscPreviousFetches, answers.gsc_current, answers.gsc_previous,
                    answers.fetch_raises, ga4.errors))

\* generate, lines 244-268: the data of every source, and self.errors after
Collected(self, answers) ==
    WithGa4(self, answers,
            Collect(self.ga4, "GA4 client not initialized", Ga4Fetches,
                    Ga4PreviousFetches, answers.ga4_current, answers.ga4_previous,
                    answers.fetch_raises, ResetErrors(self.errors)))

\* generate, lines 222-242
Metadata(self, periods_) ==
    [current_period  |-> periods_.current,
     previous_period |-> periods_.previous,
     comparison_type |-> periods_.comparison_type,
     integrations    |-> [pagespeed  |-> self.pagespeed # None,
                          hotjar     |-> self.hotjar # None,
                          google_ads |-> self.google_ads # None]]

\* generate, once the periods are known
GenerateFor(self, answers, periods_) ==
    IF periods_.raised
    THEN [raised |-> TRUE, exc |-> periods_.exc,
          errors |-> ResetErrors(self.errors), engine |-> self.insights_engine.insights]
    ELSE AnalyzedReport(self, Metadata(self, periods_), Collected(self, answers))

\* generate: [raised, report, errors, engine]
generate(self, answers, quarter, year, comparison_type) ==
    GenerateFor(self, answers, get_comparison_periods(quarter, year, comparison_type))

(***************************************************************************)
(* Worlds a report is generated in.  A world is varied one group at a      *)
(* time: the fetches that raise, against no optional integration; the      *)
(* integrations that are enabled and the constructors that raise; what     *)
(* PageSpeed, Hotjar and Google Ads answer, and the period asked for.      *)
(***************************************************************************)
MaxFailures == 2

ClientNames ==
    {"GA4 Client", "Search Console Client", "PageSpeed Client", "Hotjar Client",
     "Google Ads Client"}

Integrations == {"pagespeed", "hotjar", "google_ads"}

Names(fetches) == {fetches[i].name : i \in DOMAIN fetches}

FetchNames ==
    Names(Ga4Fetches) \cup Names(Ga4PreviousFetches) \cup Names(GscFetches)
        \cup Names(GscPreviousFetches)

RECURSIVE SetsUpTo(_, _)
\* the subsets of names with at most n members
SetsUpTo(names, n) ==
    IF n = 0 THEN {{}}
    ELSE LET smaller == SetsUpTo(names, n - 1)
         IN  smaller \cup {f \cup {name} : f \in smaller, name \in names}

FailureSets == SetsUpTo(FetchNames, MaxFailures) \cup {FetchNames}

PagespeedAnswers ==
    {[raises |-> TRUE]}
    \cup {[raises |-> FALSE, mobile |-> m, desktop |-> d] :
             m \in {None, Some(40), Some(70), Some(95)}, d \in {None, Some(80)}}

HotjarAnswers ==
    {[raises |-> TRUE]} \cup {[raises |-> FALSE, nps |-> n] : n \in {-10, 0, 60}}

GoogleAdsAnswers == {[raises |-> TRUE], [raises |-> FALSE]}

CalmWorld ==
    [base        |-> Quiet,
     config      |-> {},
     init_raises |-> {},
     fetch_raises |-> {},
     pagespeed   |-> [raises |-> FALSE, mobile |-> Some(95), desktop |-> Some(80)],
     hotjar      |-> [raises |-> FALSE, nps |-> 0],
     google_ads  |-> [raises |-> FALSE],
     quarter     |-> "Q1",
     year        |-> 2024,
     comparison_type |-> "yoy"]

Worlds ==
    {[CalmWorld EXCEPT !.base = b, !.fetch_raises = f] :
        b \in {Quiet, Loud}, f \in FailureSets}
    \cup {[CalmWorld EXCEPT !.base = b, !.config = c, !.init_raises = i, !.fetch_raises = f] :
             b \in {Quiet, Loud}, c \in SUBSET Integrations, i \in SUBSET ClientNames,
             f \in {{}, {"GA4 top pages"}}}
    \cup {[CalmWorld EXCEPT !.base = b, !.config = Integrations, !.pagespeed = p,
                            !.hotjar = h, !.google_ads = g, !.quarter = q,
                            !.comparison_type = t] :
             b \in {Quiet, Loud}, p \in PagespeedAnswers, h \in HotjarAnswers,
             g \in GoogleAdsAnswers, q \in {"Q1", "Q5"}, t \in {"yoy", "qoq"}}

\* what the remote services answer in a world
Answers(w) ==
    [ga4_current  |-> Ga4Current(w.base),
     ga4_previous |-> Previous(w.base.ga4_prev, "traffic_overview"),
     gsc_current  |-> GscCurrent(w.base),
     gsc_previous |-> Previous(w.base.gsc_prev, "overview"),
     fetch_raises |-> w.fetch_raises,
     pagespeed    |-> w.pagespeed,
     hotjar       |-> w.hotjar,
     google_ads   |-> w.google_ads]

InitReport ==
    /\ pc = "start"
    /\ world \in Worlds
    /\ generator = NoResult
    /\ report = NoResult
    /\ CoreIdle
    /\ TrendIdle
    /\ CacheIdle

\* generator = ReportGenerator(...)
Construct ==
    /\ generator = NoResult
    /\ generator' = Ok(ReportGenerator(world.config, world.init_raises))
    /\ pc' = "ReportGenerator"
    /\ UNCHANGED <<world, report, core_vars, trend_vars, cache_vars>>

\* the generator and the caller once generate has ended
Returned(ran) ==
    /\ generator' = Ok([generator.out EXCEPT
                           !.errors = ran.errors,
                           !.insights_engine = [insights |-> ran.engine]])
    /\ report' = IF ran.raised THEN [raised |-> TRUE, exc |-> ran.exc] ELSE Ok(ran.report)

\* report = generator.generate(...)
Generate ==
    /\ "out" \in DOMAIN generator
    /\ report = NoResult
    /\ Returned(generate(generator.out, Answers(world), world.quarter, world.year,
                         world.comparison_type))
    /\ pc' = "generate"
    /\ UNCHANGED <<world, core_vars, trend_vars, cache_vars>>

NextReport == Construct \/ Generate

SpecReport == InitReport /\ [][NextReport]_vars

(***************************************************************************)
(* cache.py: DataCache and the decorator cached                            *)
(*                                                                         *)
(* The diskcache directories are one map from (directory, key) to the      *)
(* value stored and the time it expires.  A key is the JSON text that      *)
(* _make_key hashes: the hash is taken to tell two texts apart.  None is   *)
(* Python's None, a stored value as well as the answer of a miss.          *)
(***************************************************************************)
SecondsPerHour == 3600

\* DataCache.__init__
DataCache(client_name, settings_) ==
    [client_name |-> client_name,
     cache_dir   |-> <<".cache", client_name>>,
     ttl_seconds |-> settings_.cache_ttl_hours * SecondsPerHour,
     enabled     |-> settings_.cache_enabled]

\* _make_key: json.dumps of the positional arguments as a list and the
\* keyword arguments as an object with sorted keys
make_key(args_, kwargs) == [args |-> args_, kwargs |-> kwargs]

\* diskcache.Cache.get: the value of an entry that has not expired, else None
CacheGet(disk_, cache_dir, key, now) ==
    IF <<cache_dir, key>> \in DOMAIN disk_ /\ disk_[<<cache_dir, key>>].expire_time > now
    THEN disk_[<<cache_dir, key>>].value
    ELSE None

\* diskcache.Cache.set
CacheSet(disk_, cache_dir, key, value, expire, now) ==
    [k \in DOMAIN disk_ \cup {<<cache_dir, key>>} |->
        IF k = <<cache_dir, key>> THEN [value |-> value, expire_time |-> now + expire]
        ELSE disk_[k]]

\* DataCache.get
get(self, disk_, key, now) ==
    IF ~ self.enabled THEN None ELSE CacheGet(disk_, self.cache_dir, key, now)

\* DataCache.set: the disk after it; ttl is a number (ttl or self.ttl_seconds)
set(self, disk_, key, value, ttl, now) ==
    IF ~ self.enabled THEN disk_
    ELSE CacheSet(disk_, self.cache_dir, key, value,
                  IF ttl # 0 THEN ttl ELSE self.ttl_seconds, now)

Hit_whenever_stored(self, disk_, key, now) ==
    self.enabled /\ <<self.cache_dir, key>> \in DOMAIN disk_

\* wrapper, line 92: cached_value is not None
Hit(self, disk_, key, now) == get(self, disk_, key, now) # None

\* wrapper: [returned, executed, disk]; result is what func returns if it is
\* executed
wrapper(client_name, func_name, ttl_hours, args_, kwargs, result, settings_, disk_, now) ==
    LET cache == DataCache(client_name, settings_)
        key   == make_key(<<func_name>> \o args_, kwargs)
        ttl   == (IF ttl_hours # None /\ ttl_hours[1] # 0
                  THEN ttl_hours[1] ELSE settings_.cache_ttl_hours) * SecondsPerHour
    IN  IF Hit(cache, disk_, key, now)
        THEN [returned |-> get(cache, disk_, key, now), executed |-> FALSE, disk |-> disk_]
        ELSE [returned |-> result, executed |-> TRUE,
              disk     |-> set(cache, disk_, key, result, ttl, now)]

(***************************************************************************)
(* Calls of cached client methods.  Two clients, two decorated methods,    *)
(* the same date passed by position or by keyword.  A method answers with  *)
(* rows, with an empty result or with None, and what it answers names the  *)
(* client it came from.                                                    *)
(***************************************************************************)
MaxCalls == 2

MaxHours == 2

ClientIds == {"acme", "beta"}

\* the decorated methods and the ttl_hours of their decorator
CachedMethods == [get_top_pages |-> None, analyze_url |-> Some(2)]

CallArguments ==
    {[func_name |-> "get_top_pages", args |-> <<"2024-01-01">>, kwargs |-> <<>>],
     [func_name |-> "get_top_pages", args |-> <<>>, kwargs |-> [start_date |-> "2024-01-01"]],
     [func_name |-> "analyze_url", args |-> <<"/">>, kwargs |-> <<>>]}

\* what a method of a client can return
MethodResults(client_name) ==
    {None} \cup {Some([client |-> client_name, data |-> d]) : d \in {"empty", "rows"}}

InitCache ==
    /\ pc = "start"
    /\ cache_settings \in [cache_enabled : BOOLEAN, cache_ttl_hours : {1}]
    /\ disk = <<>>
    /\ clock = 0
    /\ cache_call = [op |-> "none"]
    /\ executions = 0
    /\ CoreIdle
    /\ TrendIdle
    /\ ReportIdle

\* client.method(*args, **kwargs) on a decorated method
CallCached ==
    /\ \E client_name \in ClientIds, call \in CallArguments :
          \E result \in MethodResults(client_name) :
              LET ran == wrapper(client_name, call.func_name, CachedMethods[call.func_name],
                                 call.args, call.kwargs, result,
                                 cache_settings, disk, clock)
              IN  /\ ran.executed \/ result = None
                  /\ ran.executed => executions < MaxCalls
                  /\ disk' = ran.disk
                  /\ executions' = IF ran.executed THEN executions + 1 ELSE executions
                  /\ cache_call' = [client_name |-> client_name,
                                    func_name   |-> call.func_name,
                                    args        |-> call.args,
                                    kwargs      |-> call.kwargs,
                                    executed    |-> ran.executed,
                                    returned    |-> ran.returned]
    /\ pc' = "cached"
    /\ UNCHANGED <<cache_settings, clock, core_vars, trend_vars, report_vars>>

\* an hour passes
Tick ==
    /\ clock < MaxHours * SecondsPerHour
    /\ clock' = clock + SecondsPerHour
    /\ pc' = "tick"
    /\ UNCHANGED <<cache_settings, disk, cache_call, executions, core_vars, trend_vars,
                   report_vars>>

NextCache == CallCached \/ Tick

SpecCache == InitCache /\ [][NextCache]_vars

(***************************************************************************)
(* Claims about the trend analyzer.                                        *)
(***************************************************************************)
TrendAnalyzed == trend # NoResult

AnomaliesDetected == anomalies # NoResult

\* the common difference of an arithmetic series of at least 3 points
StepOf(values) == values[2] - values[1]

IsArithmetic(values) ==
    /\ Len(values) >= 3
    /\ \A i \in 1 .. Len(values) - 1 : values[i + 1] - values[i] = StepOf(values)

\* sum of the series, and of the squares of its terms
Total(values) == SumTo(values, Len(values))

TotalOfSquares(values) == SquaresTo(values, 1, 0, 0, Len(values))

RisingArithmetic == IsArithmetic(trend_args.values) /\ StepOf(trend_args.values) > 0

IncreasingAndSignificant ==
    /\ trend.direction = "increasing"
    /\ FracEq(trend.strength, Whole(1))
    /\ trend.significant

\* C21 (as stated): analyze_trend on every strictly increasing arithmetic series
\* of at least 3 points yields direction increasing, strength (R squared) 1 and
\* significant true.
C21_ArithmeticIncreasing ==
    (TrendAnalyzed /\ RisingArithmetic) => IncreasingAndSignificant

\* 100 * step > 5 * |mean|, with mean = total / n
StepAboveFivePercent(values) ==
    100 * StepOf(values) * Len(values) > 5 * Abs(Total(values))

\* std / mean < 1/2 for a series of mean total / n and of population variance
\* (n * sum of squares - total ** 2) / n ** 2: either the mean is negative, or
\* 4 * (n * sum of squares - total ** 2) < total ** 2
VariationBelowHalf(values) ==
    LET n       == Len(values)
        squares == TotalOfSquares(values)
        total   == Total(values)
    IN  \/ total < 0
        \/ total > 0 /\ 4 * (n * squares - total * total) < total * total

NonZeroMean(values) == Total(values) # 0

\* C21 (amended): analyze_trend on every strictly increasing arithmetic series
\* of at least 3 points whose mean is not zero, whose step is more than 5% of
\* the absolute value of its mean and whose coefficient of variation std/mean
\* is below 0.5 yields direction increasing, strength (R squared) 1 and
\* significant true.
C21_SteepArithmeticIncreasing ==
    (/\ TrendAnalyzed
     /\ RisingArithmetic
     /\ NonZeroMean(trend_args.values)
     /\ StepAboveFivePercent(trend_args.values)
     /\ VariationBelowHalf(trend_args.values)) => IncreasingAndSignificant

\* analyze_trend has run on [10, 20, 30, 40, 50] and found it increasing
C21_Witness ==
    /\ TrendAnalyzed
    /\ trend_args.values = <<10, 20, 30, 40, 50>>
    /\ StepAboveFivePercent(trend_args.values)
    /\ VariationBelowHalf(trend_args.values)
    /\ trend.direction = "increasing"

\* the threshold the caller asked for: min_deviation, or sensitivity * 50 when
\* none was given
RequestedFloor ==
    IF trend_args.min_deviation = None
    THEN FracMul(trend_args.sensitivity, Whole(50))
    ELSE Whole(trend_args.min_deviation[1])

\* what the claim says of the point at idx: it is to be flagged
ToBeFlagged(idx) ==
    LET values   == trend_args.values
        n        == Len(values)
        total    == Total(values)
        s        == trend_args.sensitivity
        \* n * (value - mean) and n ** 2 * variance, both integers
        distance == n * values[idx] - total
        spread   == n * TotalOfSquares(values) - total * total
        \* |value - mean| / |mean| * 100, 0 over a zero mean
        pct      == IF total = 0 THEN Whole(0) ELSE Reduced(100 * Abs(distance), Abs(total))
    IN  /\ n >= 5
        /\ spread # 0
        /\ s.d * s.d * distance * distance > s.n * s.n * spread
        /\ ~ FracLt(pct, RequestedFloor)

FlaggedAt(idx) == \E k \in DOMAIN anomalies.out : anomalies.out[k].date = idx

\* the example of the specification: [10, 10, 10, 10, 100] at sensitivity 2.0
SpecExample ==
    (trend_args.sensitivity = Frac(2, 1) /\ trend_args.values = <<10, 10, 10, 10, 100>>)
        => \E k \in DOMAIN anomalies.out :
              anomalies.out[k].value = 100 /\ anomalies.out[k].type = "spike"

\* the general rule: which points are flagged, and as what
FlaggingRule ==
    /\ \A idx \in DOMAIN trend_args.values : FlaggedAt(idx) <=> ToBeFlagged(idx)
    /\ \A k \in DOMAIN anomalies.out :
          anomalies.out[k].type =
              IF Len(trend_args.values) * anomalies.out[k].value > Total(trend_args.values)
              THEN "spike" ELSE "drop"

\* C22: detect_anomalies with sensitivity 2.0 on [10,10,10,10,100] flags the
\* value 100 as a spike; in general a point is flagged iff the series has at
\* least 5 points and nonzero std, |value - mean| > sensitivity * std and
\* |deviation_pct| >= min_deviation, and it is typed spike if above the mean,
\* else drop.
C22_Anomalies == AnomaliesDetected => (SpecExample /\ FlaggingRule)

\* the example alone, and the general rule alone
SpecExampleFlagged == AnomaliesDetected => SpecExample

FlaggingRuleHolds == AnomaliesDetected => FlaggingRule

\* the general rule for every call that gives no min_deviation of 0
FlaggingRuleUnlessZeroFloor ==
    (AnomaliesDetected /\ trend_args.min_deviation # Some(0)) => FlaggingRule

(***************************************************************************)
(* Claims about the report generator.                                      *)
(***************************************************************************)
ReportReturned == pc = "generate" /\ ~ report.raised

\* generate was called with a quarter and a comparison type it knows
PeriodKnown == ~ get_comparison_periods(world.quarter, world.year, world.comparison_type).raised

\* the fetches generate called that raised: a client that was not made
\* fetches nothing
FailedFetches ==
    (IF generator.out.ga4 # None
     THEN world.fetch_raises \cap (Names(Ga4Fetches) \cup Names(Ga4PreviousFetches))
     ELSE {})
    \cup (IF generator.out.gsc # None
          THEN world.fetch_raises \cap (Names(GscFetches) \cup Names(GscPreviousFetches))
          ELSE {})

Entries(errors, message) == Len(SelectSeq(errors, LAMBDA e : e = message))

\* report.errors has one entry per failed fetch
FetchFailuresRecorded ==
    \A name \in FailedFetches : Entries(report.out.errors, ErrorMessage(name, "failed")) = 1

\* the sections of a collected dict whose fetch did not raise
Fetched(data, fetches) ==
    [k \in {key \in DOMAIN data \ {"_previous"} :
               \A i \in DOMAIN fetches :
                   fetches[i].key = key => fetches[i].name \notin world.fetch_raises} |->
        data[k]]

FetchedPrevious(data, fetches) ==
    IF "_previous" \in DOMAIN data THEN Fetched(data["_previous"], fetches) ELSE <<>>

\* the insights the engine derives from the sections that were fetched
DerivedFromFetched ==
    analyze(<<>>,
            Fetched(report.out.ga4, Ga4Fetches),
            FetchedPrevious(report.out.ga4, Ga4PreviousFetches),
            Fetched(report.out.gsc, GscFetches),
            FetchedPrevious(report.out.gsc, GscPreviousFetches),
            generator.out.settings)

Delivered == report.out.insights.insights

InsightsOfFetchedDelivered ==
    /\ ~ DerivedFromFetched.raised
    /\ \A i \in DOMAIN DerivedFromFetched.out :
          \E j \in DOMAIN Delivered : Delivered[j] = to_dict(DerivedFromFetched.out).insights[i]

\* C23: for every subset of data-fetch calls that raise during generate,
\* generate still returns a report, report.errors holds one entry per failed
\* fetch, and the insights derived from the sections that were fetched are
\* present in report.insights.  Stated as is; the code violates it: analyze
\* raises on the {} left in place of a failed DataFrame fetch, and the report
\* then carries no insights at all.
C23_SourceFailuresTolerated ==
    (pc = "generate" /\ PeriodKnown) =>
        /\ ~ report.raised
        /\ FetchFailuresRecorded
        /\ InsightsOfFetchedDelivered

\* the sections on which a pass of the engine calls .empty
FramesRead ==
    {"GA4 channel breakdown", "GA4 top pages", "GA4 device breakdown",
     "GSC keyword opportunities"}

\* a report is returned and every failed fetch is recorded once, whatever fails
FailuresReturnedAndRecorded ==
    (pc = "generate" /\ PeriodKnown) => (~ report.raised /\ FetchFailuresRecorded)

\* the insights of the fetched sections are delivered when no failed fetch is
\* of a DataFrame the engine reads
InsightsDeliveredUnlessFrameFailed ==
    (ReportReturned /\ FailedFetches \cap FramesRead = {}) => InsightsOfFetchedDelivered

\* C24: the insight records of a generated report, after the PageSpeed and
\* Hotjar insights are added, are sorted non-decreasing by priority.  Stated
\* as is; the code violates it: the records are appended behind the sorted
\* list of the engine.
C24_DeliveredSortedByPriority ==
    ReportReturned =>
        \A i, j \in DOMAIN Delivered : i < j => Delivered[i].priority <= Delivered[j].priority

\* the records the engine serialized are sorted among themselves
EngineRecordsSorted ==
    ReportReturned =>
        \A i, j \in DOMAIN Delivered :
            (i < j /\ "metric_name" \in DOMAIN Delivered[i]
                   /\ "metric_name" \in DOMAIN Delivered[j]) =>
                Delivered[i].priority <= Delivered[j].priority

\* the errors _safe_init recorded while the generator was constructed
InitializationFailures == ReportGenerator(world.config, world.init_raises).errors

\* C28: every client-initialization failure recorded by _safe_init at
\* construction is contained in the errors of the report a subsequent generate
\* returns.  Stated as is; the code violates it: generate empties self.errors
\* before it collects anything.
C28_InitFailuresReported ==
    ReportReturned =>
        \A i \in DOMAIN InitializationFailures :
            \E j \in DOMAIN report.out.errors : report.out.errors[j] = InitializationFailures[i]

\* the failures are on the generator between construction and generate
InitFailuresRecordedAtConstruction ==
    pc = "ReportGenerator" =>
        /\ generator.out.errors = InitializationFailures
        /\ \A name \in world.init_raises :
              (name \in {"GA4 Client", "Search Console Client"}
               \/ (name = "PageSpeed Client" /\ "pagespeed" \in world.config)
               \/ (name = "Hotjar Client" /\ "hotjar" \in world.config)
               \/ (name = "Google Ads Client" /\ "google_ads" \in world.config))
              => Entries(generator.out.errors, ErrorMessage(name, "initialization failed")) = 1

\* no report carries an initialization failure
InitFailuresNeverReported ==
    ReportReturned =>
        \A j \in DOMAIN report.out.errors : report.out.errors[j].what # "initialization failed"

(***************************************************************************)
(* Claims about two calls on one engine (checked under SpecThreads).       *)
(***************************************************************************)
SharedEngine == pc = "threads" /\ threads[1].self = threads[2].self

Other(t) == IF t = 1 THEN 2 ELSE 1

\* the list the call of thread t returned
ReturnedList(t) == heap[threads[t].result.list]

\* the list of thread t holds more insights of some value than the call
\* produces: insights of the other call
ContainsOthers(t) ==
    \E i \in DOMAIN ReturnedList(t) :
        Entries(ReturnedList(t), ReturnedList(t)[i]) > Entries(Alone(t).out, ReturnedList(t)[i])

\* the list of thread t holds fewer insights of some value than the call
\* produces
LacksOwn(t) ==
    \E i \in DOMAIN Alone(t).out :
        Entries(ReturnedList(t), Alone(t).out[i]) < Entries(Alone(t).out, Alone(t).out[i])

\* no insight of one call equals one of the other, so that the insights of a
\* list can be told apart by their values
Distinguishable ==
    \A i \in DOMAIN Alone(1).out : \A j \in DOMAIN Alone(2).out :
        Alone(1).out[i] # Alone(2).out[j]

\* the list object made by the first self.insights = [] of the two calls
\* (the engines were constructed with lists 1 and 2)
FirstReset == 3

\* C25: one engine shared by two interleaving analyze calls is not isolated:
\* the list is an attribute of the instance and is replaced at the start of
\* each call, so there is an interleaving in which a call returns a list that
\* contains insights of the other call or lacks insights of its own.  As an
\* invariant: a call that returns the list of the first reset returned before
\* the other call began and returns what it returns alone, as does a call
\* that began after the other returned; every other call that returns hands
\* back the list of the later reset, which both calls return, and a list
\* that differs from the one it returns alone contains insights of the other
\* call or lacks its own (where the values tell them apart).  The witness is
\* the interleaving.
C25_SharedEngineNotIsolated ==
    SharedEngine =>
        \A t \in Threads :
            threads[t].at = "done" =>
                /\ threads[t].result.list >= FirstReset
                /\ threads[t].result.list = FirstReset => ReturnedList(t) = Alone(t).out
                /\ (threads[Other(t)].at = "done"
                    /\ threads[Other(t)].result.list # threads[t].result.list) =>
                       ReturnedList(t) = Alone(t).out
                /\ ReturnedList(t) # Alone(t).out =>
                       /\ threads[Other(t)].at # "call"
                       /\ threads[t].result.list = Len(heap)
                       /\ Distinguishable => (ContainsOthers(t) \/ LacksOwn(t))

\* The call of thread 1 has returned the list of the later reset; it holds
\* an insight of the other call and lacks one of its own.
C25_Witness ==
    /\ SharedEngine
    /\ Distinguishable
    /\ threads[1].at = "done"
    /\ threads[1].result.list = Len(heap)
    /\ ContainsOthers(1)
    /\ LacksOwn(1)

(***************************************************************************)
(* Claims about the summary of a non-empty list (checked under Spec).      *)
(***************************************************************************)
\* get_executive_summary was called after an analyze that returned a list
\* with at least one insight
SummaryOfNonEmpty ==
    /\ pc = "get"
    /\ executive_summary # NoResult
    /\ ~ returned.raised
    /\ returned.value # <<>>

\* no sentence was joined: the string is empty
EmptySummary == executive_summary.value = <<>>

\* C26: after any analyze call that returns a non-empty list,
\* get_executive_summary returns a non-empty string different from the
\* fallback, whatever the types and priorities of the insights.  Stated as
\* is; the code violates it: a list of neutral or negative insights of
\* priority 3 or 4 without a total_users insight fills no slot.
C26_SummaryNeverEmpty ==
    SummaryOfNonEmpty => (~ EmptySummary /\ executive_summary.value # Fallback)

\* an insight that fills one of the four slots
FillsSlot(i) ==
    \/ i.metric_name = "total_users"
    \/ i.type = "positive"
    \/ i.type = "opportunity"
    \/ i.priority <= 2

\* C26, amended: the summary of a non-empty list is never the fallback; it
\* is a non-empty string if the list has a total_users insight, an insight
\* of type positive or opportunity or one of priority 1 or 2, and the empty
\* string otherwise.
C26_SummaryOfSlotSources ==
    SummaryOfNonEmpty =>
        /\ executive_summary.value # Fallback
        /\ EmptySummary <=> \A i \in DOMAIN returned.value : ~ FillsSlot(returned.value[i])

\* Only a negative insight of priority 2 was returned (a bounce rate far
\* above benchmark, or a steep traffic decline) and the summary is the one
\* sentence that requires attention.
C26_Witness ==
    /\ SummaryOfNonEmpty
    /\ \A i \in DOMAIN returned.value :
          returned.value[i].type = "negative" /\ returned.value[i].metric_name # "total_users"
    /\ Len(executive_summary.value) = 1
    /\ executive_summary.value[1].slot = "Requires attention"

(***************************************************************************)
(* Claims about the size of the returned list (checked under Spec).        *)
(***************************************************************************)
ListReturned == pc # "start" /\ ~ returned.raised

\* C27: the list analyze returns holds at most one insight per metric_name
\* (the two alternatives of each threshold pair exclude each other), hence
\* at most 12 insights, each with a priority in 1..4.
C27_OnePerMetric ==
    ListReturned =>
        /\ \A i, j \in DOMAIN returned.value :
              returned.value[i].metric_name = returned.value[j].metric_name => i = j
        /\ Len(returned.value) <= 12
        /\ \A i \in DOMAIN returned.value : returned.value[i].priority \in 1 .. 4

\* All twelve conditions hold at once and the list has an insight of each
\* metric_name.
C27_Witness ==
    /\ ListReturned
    /\ Len(returned.value) = 12
    /\ \A i, j \in DOMAIN returned.value :
          returned.value[i].metric_name = returned.value[j].metric_name => i = j
    /\ \E i \in DOMAIN returned.value : returned.value[i].priority = 1
    /\ \E i \in DOMAIN returned.value : returned.value[i].priority = 4

(***************************************************************************)
(* Claims about a custom benchmark (checked under SpecBenchmark).          *)
(***************************************************************************)
CustomSupplied ==
    /\ pc = "compare"
    /\ bench_call.op = "compare"
    /\ bench_call.custom_benchmark # None

ComparedAgainstCustom ==
    /\ comparisons # <<>>
    /\ comparisons[1][2].benchmark_value = bench_call.custom_benchmark[1]
    /\ comparisons[1][2].difference =
           bench_call.current_value - bench_call.custom_benchmark[1]

\* C29: whenever a custom_benchmark is supplied to compare, the returned
\* comparison has benchmark_value equal to it and difference equal to
\* current_value - custom_benchmark, for every numeric custom_benchmark, 0
\* included, whether or not the metric has a table entry.  Stated as is; the
\* code violates it: a custom benchmark of 0 is replaced by the table value.
C29_CustomBenchmarkUsed == CustomSupplied => ComparedAgainstCustom

\* every custom benchmark other than 0 is used, with or without a table entry
NonZeroCustomUsed ==
    (CustomSupplied /\ bench_call.custom_benchmark # Some(0)) => ComparedAgainstCustom

\* a custom benchmark of 0 gives way to the value of the table entry
ZeroCustomGivesWay ==
    (CustomSupplied /\ bench_call.custom_benchmark = Some(0)) =>
        /\ comparisons # <<>>
        /\ comparisons[1][2].benchmark_value =
               Get(Get(benchmarks, bench_call.metric_name, <<>>), "value", 0)

(***************************************************************************)
(* Claims about the cache (checked under SpecCache).                       *)
(***************************************************************************)
\* where a call looks its result up
EntryOf(call) ==
    <<DataCache(call.client_name, cache_settings).cache_dir,
      make_key(<<call.func_name>> \o call.args, call.kwargs)>>

\* the method was executed with the arguments of the call on a client of the
\* same name, its result was stored and the TTL has not expired
StoredAndFresh(call) ==
    /\ EntryOf(call) \in DOMAIN disk
    /\ disk[EntryOf(call)].expire_time > clock

\* the call of this step returns the stored result and executes nothing
ServedFromCache ==
    /\ ~ cache_call'.executed
    /\ executions' = executions
    /\ cache_call'.returned = disk[EntryOf(cache_call')].value

\* the call of this step executes the wrapped method
ExecutedAgain == cache_call'.executed /\ executions' = executions + 1

\* what a call returns without executing comes from a client of its own name
OwnEntriesOnly ==
    (~ cache_call'.executed /\ cache_call'.returned # None) =>
        cache_call'.returned[1].client = cache_call'.client_name

CachedAsClaimed ==
    pc' = "cached" =>
        /\ (cache_settings.cache_enabled /\ StoredAndFresh(cache_call')) => ServedFromCache
        /\ OwnEntriesOnly
        /\ ~ cache_settings.cache_enabled => ExecutedAgain

\* C30: with caching enabled, once a cached method has been executed for
\* given arguments, every later call with the same method name and arguments
\* on a client of the same client_name before the TTL expires returns the
\* stored result without executing the method again, for every result the
\* method can return; an entry of one client_name is never returned to a
\* client of another; with caching disabled the method is executed on every
\* call.  Stated as is; it fails for the result None.
C30_Cached == [][CachedAsClaimed]_vars

CachedUnlessNone ==
    pc' = "cached" =>
        /\ (cache_settings.cache_enabled /\ StoredAndFresh(cache_call')) =>
              IF disk[EntryOf(cache_call')].value # None
              THEN ServedFromCache ELSE ExecutedAgain
        /\ OwnEntriesOnly
        /\ ~ cache_settings.cache_enabled => ExecutedAgain

\* C30, amended: the stored result is returned without executing again for
\* every result other than None; after a result of None the method is
\* executed again on the next call.
C30_CachedUnlessNone == [][CachedUnlessNone]_vars

\* An hour after acme's analyze_url was executed and returned an empty
\* result, a call returns that result without executing, while a second
\* entry belongs to the other client.
C30_Witness ==
    /\ pc = "cached"
    /\ clock = SecondsPerHour
    /\ executions = MaxCalls
    /\ ~ cache_call.executed
    /\ cache_call.func_name = "analyze_url"
    /\ cache_call.returned = Some([client |-> "acme", data |-> "empty"])
    /\ \E k \in DOMAIN disk : k[1] = DataCache("beta", cache_settings).cache_dir

====
